---- MODULE Spec2Model ----
(***************************************************************************)
(* Model of luisjaime-estudio/descargar_datos: relocation of downloaded    *)
(* NetCDF files from the ESGF cache into <model>/<ensemble>/s<year>/, the   *)
(* missing-year computation, and the failed-key reconciliation of a run.   *)
(*                                                                         *)
(* File names and path components are sequences of one-character strings,  *)
(* so that str.split("_") and the regular expression ^(s\d{4})-(r.+)$ are   *)
(* computed and not assumed.  A path is the sequence of its components,     *)
(* relative to the cache root, the file name last (pathlib's Path.parts).   *)
(* An optional value (Python's None) is a sequence of length 0 or 1.        *)
(***************************************************************************)
EXTENDS Integers, Sequences, FiniteSets, TLC

VARIABLES
    cache,            \* files under the cache root: path -> content
    salida,           \* files under the destination root: path -> content
    dirs,             \* directories that exist under the destination root
    variante,         \* which relocation function the run uses
    pc,               \* "reposo" | "pasada" | "completa" | "interrumpida"
    pendientes,       \* discovered files the running pass has not yet handled
    movidos,          \* counter of the running pass
    omitidos,         \* counter of the running pass (mover_nc_cache_a_salida)
    errores,          \* counter of the running pass
    bitacora,         \* branch the pass took for each handled file: path -> tag
    cache0,           \* cache when the running pass discovered its files
    salida0,          \* destination tree when the running pass started
    n_pasada,         \* passes started so far
    n_fallos,         \* directory-creation / move failures raised so far
    fallo_pasada,     \* TRUE when an operation raised in the running pass
    previa,           \* summary of the pass before the running one (<<>>: none)
    pcE,              \* position inside DescargadorDatosESGF.ejecutar ("no": not running)
    claves_catalogo,  \* set(self._catalogo.df["key"])
    resultado_descarga, \* keys of self._resultado_descarga
    claves_fallidas,  \* self._claves_fallidas
    csv_fallos,       \* descargas_fallidas_<source_id>.csv: its rows (<<>>: no file)
    csv0,             \* that file when the run started
    csv_error,        \* TRUE when writing that file raised OSError in this run
    registros,        \* argument of calcular_faltantes: list of Registro
    inicio,           \* argument inicio (None: inferred from the registros)
    fin,              \* argument fin (None: inferred from the registros)
    pcF,              \* "inicio", then how calcular_faltantes or main ended
    filas,            \* the list calcular_faltantes returned
    locales,          \* its local values, one record per group it finished
    reporte,          \* the CSV of missing years: its rows (<<>>: no file)
    historial,        \* per run that reached the failed-download CSV: what it was to add
    filtro_modelo,    \* argument --filtro-modelo of the retry driver (None: no filter)
    tareas,           \* the list leer_tareas_desde_csv returned
    pcR,              \* where main of the retry driver stands
    resultados,       \* the rows main has appended so far
    estado,           \* what descargar_tarea returned for the task at hand
    detalle,
    llamadas,         \* per call of descargar_tarea: what was asked of the collaborator
    reporte_descarga, \* the retry report file (none before guardar_reporte)
    raices,           \* which of cache_dir and salida_dir of the retry driver exist
    source_id,        \* what ConfiguracionBusqueda is constructed with (None: absent)
    variable_id,
    argv,             \* command line of orquestar_pipeline.py, flags only
    args,             \* parser.parse_args(): the destinations that are True
    pasos,            \* the commands main of orquestar_pipeline.py has planned
    pcO,              \* where main of orquestar_pipeline.py stands ("no": not running)
    impresos,         \* the [PIPELINE] lines printed, in order
    ejecutados,       \* the subprocess.run calls made, with what each returned
    codigo_salida,    \* exit code of the orchestrator (none while it runs)
    completada,       \* TRUE once "[PIPELINE] Ejecucion completada." is printed
    cacheP,           \* two passes at once: the cache of each, path -> content
    pcP,              \* of each: "no" | "inicio" | "pasada" | "fin"
    pendP,            \* of each: discovered files not yet handled
    enMano,           \* of each: the file whose destination it has found free
    cuentaP,          \* of each: its counters movidos, omitidos, errores
    reemplazados,     \* destination paths at which a move replaced a file
    solapadas         \* TRUE once the two passes have been running at the same time

varsReubicar == <<cache, salida, dirs, variante, pc, pendientes, movidos, omitidos,
                  errores, bitacora, cache0, salida0, n_pasada, n_fallos,
                  fallo_pasada, previa>>

varsEjecutar == <<pcE, claves_catalogo, resultado_descarga, claves_fallidas,
                  csv_fallos, csv0, csv_error>>

varsFaltantes == <<registros, inicio, fin, pcF, filas, locales, reporte>>

varsCsv == <<historial>>

varsTareas == <<filtro_modelo, tareas>>

varsReintento == <<pcR, resultados, estado, detalle, llamadas, reporte_descarga, raices>>

varsConfiguracion == <<source_id, variable_id>>

varsOrquestador == <<argv, args, pasos, pcO, impresos, ejecutados, codigo_salida,
                     completada>>

varsConcurrente == <<cacheP, pcP, pendP, enMano, cuentaP, reemplazados, solapadas>>

vars == <<varsReubicar, varsEjecutar, varsFaltantes, varsCsv, varsTareas, varsReintento,
          varsConfiguracion, varsOrquestador, varsConcurrente>>

\* what a relocation pass on its own leaves alone
ajenoReubicar == <<varsEjecutar, varsFaltantes, varsCsv, varsTareas, varsReintento,
                   varsConfiguracion, varsOrquestador, varsConcurrente>>

\* what a run of DescargadorDatosESGF.ejecutar leaves alone
ajenoEjecutar == <<varsFaltantes, varsCsv, varsTareas, varsReintento, varsConfiguracion, varsOrquestador, varsConcurrente>>

\* what calcular_faltantes and main of faltantes_detectar leave alone
ajenoFaltantes == <<varsReubicar, varsEjecutar, varsCsv, varsTareas, varsReintento,
                    varsConfiguracion, varsOrquestador, varsConcurrente>>

----------------------------------------------------------------------------
(* Bounds of the model *)

MaxArchivos == 3      \* files in the cache when a behaviour starts
MaxPrevios == 1       \* files already in the destination tree at the start
MaxPasadas == 2       \* relocation passes in one behaviour
MaxFallos == 1        \* directory-creation / move failures in one behaviour
MaxClaves == 2        \* dataset keys the catalog knows
MaxRegistros == 3     \* registros given to calcular_faltantes
MaxAnios == 3         \* distinct years, from 1960 on, of registros and bounds
MaxCorridas == 3      \* runs that reach the failed-download CSV, one after another
MaxTareas == 2        \* tasks the missing-years report given to the retry driver yields
MaxCampos == 8        \* underscore-delimited fields of a file name given to the parsers
MaxBanderas == 3      \* flags on the command line of orquestar_pipeline.py
MaxEnPasada == 2      \* files in the cache of each of two passes that run at once

----------------------------------------------------------------------------
(* Strings *)

Digitos == {"0", "1", "2", "3", "4", "5", "6", "7", "8", "9"}

Ninguno == <<>>
Algun(x) == <<x>>

N60 == <<"p", "r", "_", "A", "m", "o", "n", "_", "M", "6", "_", "d", "h", "_",
         "s", "1", "9", "6", "0", "-", "r", "1", "_", "g", "n", "_", "t", ".", "n", "c">>
N62 == <<"p", "r", "_", "A", "m", "o", "n", "_", "M", "6", "_", "d", "h", "_",
         "s", "1", "9", "6", "2", "-", "r", "1", "_", "g", "n", "_", "t", ".", "n", "c">>
NCorto == <<"p", "r", "_", "A", "m", "o", "n", ".", "n", "c">>
Dv1 == <<"v", "1">>
Dv2 == <<"v", "2">>
Ds1960r1 == <<"s", "1", "9", "6", "0", "-", "r", "1">>
Ds1961r1 == <<"s", "1", "9", "6", "1", "-", "r", "1">>
Ds1962r1 == <<"s", "1", "9", "6", "2", "-", "r", "1">>
CM6 == <<"M", "6">>
Cr1 == <<"r", "1">>
Cs1960 == <<"s", "1", "9", "6", "0">>
Cs1962 == <<"s", "1", "9", "6", "2">>

(* The files a cache may hold.  Each has its own content, so that a file    *)
(* replaced by another one shows.                                          *)
Catalogo ==
    ( <<Dv1, Ds1960r1, N60>>       :> 1 ) @@   \* the usual layout
    ( <<Dv2, Ds1960r1, N60>>       :> 2 ) @@   \* same name and member: same destination
    ( <<Ds1961r1, Ds1962r1, N62>>  :> 3 ) @@   \* two matching ancestors
    ( <<Dv1, N62>>                 :> 4 ) @@   \* member only in the file name
    ( <<Ds1960r1, NCorto>>         :> 5 ) @@   \* fewer than 3 fields in the name
    ( <<Ds1961r1, N60>>            :> 6 )      \* the directory and the name disagree

(* Files that may be in the destination tree before the first pass. *)
Previos ==
    ( <<CM6, Cr1, Cs1960, N60>> :> 7 ) @@
    ( <<CM6, Cr1, Cs1962, N62>> :> 8 )

Restringir(f, S) == [x \in S |-> f[x]]

----------------------------------------------------------------------------
(* Parsers *)

\* str.split(sep): the fields between separators, empty fields kept
RECURSIVE split(_, _)
split(s, sep) ==
    IF \A i \in 1..Len(s) : s[i] # sep
    THEN <<s>>
    ELSE LET k == CHOOSE i \in 1..Len(s) :
                      s[i] = sep /\ \A j \in 1..(i - 1) : s[j] # sep
         IN  <<SubSeq(s, 1, k - 1)>> \o split(SubSeq(s, k + 1, Len(s)), sep)

\* archivo.name
Nombre(archivo) == archivo[Len(archivo)]

\* sep.join(partes)
RECURSIVE join(_, _)
join(sep, partes) ==
    IF partes = <<>> THEN <<>>
    ELSE IF Len(partes) = 1 THEN partes[1]
    ELSE partes[1] \o <<sep>> \o join(sep, Tail(partes))

\* an extractor that takes the first field
extraer_modelo_primer_campo(nombre) ==
    LET partes == split(nombre, "_")
    IN  IF Len(partes) < 3 THEN Ninguno ELSE Algun(partes[1])

\* partes_nombre = archivo.name.split("_"); len < 3 -> none; partes_nombre[2]
extraer_modelo_desde_nombre(nombre) ==
    LET partes == split(nombre, "_")
    IN  IF Len(partes) < 3 THEN Ninguno ELSE Algun(partes[3])

\* re.compile(r"^(s\d{4})-(r.+)$").match(parte)
PATRON_MEMBER_CARPETA(parte) ==
    /\ Len(parte) >= 8
    /\ parte[1] = "s"
    /\ \A i \in 2..5 : parte[i] \in Digitos
    /\ parte[6] = "-"
    /\ parte[7] = "r"

\* match.group(1), match.group(2)
Grupos(parte) == <<SubSeq(parte, 1, 5), SubSeq(parte, 7, Len(parte))>>

\* a scan from the cache root towards the file
RECURSIVE buscar_desde_raiz(_, _)
buscar_desde_raiz(partes, i) ==
    IF i = 0 THEN Ninguno
    ELSE LET j == Len(partes) - i + 1
         IN  IF PATRON_MEMBER_CARPETA(partes[j]) THEN Algun(Grupos(partes[j]))
             ELSE buscar_desde_raiz(partes, i - 1)

\* for parte in reversed(partes): first match wins; partes[i] is looked at next
RECURSIVE buscar_en_reversa(_, _)
buscar_en_reversa(partes, i) ==
    IF i = 0 THEN Ninguno
    ELSE IF PATRON_MEMBER_CARPETA(partes[i]) THEN Algun(Grupos(partes[i]))
    ELSE buscar_en_reversa(partes, i - 1)

\* an extractor that reads the member_id field of the name before the path
extraer_miembro_nombre_primero(archivo) ==
    LET partes == split(Nombre(archivo), "_")
    IN  IF Len(partes) >= 5 /\ PATRON_MEMBER_CARPETA(partes[5])
        THEN Algun(Grupos(partes[5]))
        ELSE buscar_en_reversa(archivo, Len(archivo))

\* (sub_exp, ensamble) of the closest component of the path that matches
extraer_subexp_y_ensamble_desde_ruta(archivo) ==
    buscar_en_reversa(archivo, Len(archivo))

\* destino_dir = salida_dir / modelo / ensamble / sub_exp; an empty component
\* adds nothing to a Path
destino_dir(modelo, ensamble, sub_exp) ==
    SelectSeq(<<modelo, ensamble, sub_exp>>, LAMBDA parte : parte # <<>>)

\* destino = destino_dir / archivo.name
destino_de(dir, archivo) == dir \o <<Nombre(archivo)>>

----------------------------------------------------------------------------
(* File system primitives *)

\* an existence check that never sees the file
exists_nunca(arbol, ruta) == FALSE

\* Path.exists()
exists(arbol, ruta) == ruta \in DOMAIN arbol

\* a move after which the moved file is the only one of the destination tree
move_solo(c, s, origen, destino) ==
    [cache  |-> Restringir(c, DOMAIN c \ {origen}),
     salida |-> (destino :> c[origen])]

\* a move that copies and leaves the source in place
move_sin_borrar(c, s, origen, destino) ==
    [cache |-> c, salida |-> (destino :> c[origen]) @@ s]

\* shutil.move(origen, destino): a rename; a file at the destination is replaced
shutil_move(c, s, origen, destino) ==
    [cache  |-> Restringir(c, DOMAIN c \ {origen}),
     salida |-> (destino :> c[origen]) @@ s]

----------------------------------------------------------------------------
(* Relocation passes: mover_nc_cache_a_salida, reorganizar_datos and        *)
(* DescargadorDatosESGF._mover_archivos                                     *)

(* Names and paths that put the parsers to the test: the seven fields of a  *)
(* CMIP6 name, cut short, lengthened, or with one field replaced            *)

CamposBase ==
    << <<"p", "r">>, <<"A", "m", "o", "n">>, CM6, <<"d", "h">>, Ds1960r1,
       <<"g", "n">>, <<"t">> >>

\* strings that hold "s" and four digits and are not a member sYYYY-r...
MiembrosDudosos ==
    { <<"x", "s", "1", "9", "6", "0", "-", "r", "1">>,    \* something before the s
      <<"s", "1", "9", "6", "0", "1", "-", "r", "1">>,    \* five digits
      <<"s", "1", "9", "6", "0">>,                        \* no -r... part
      <<"s", "1", "9", "6", "0", "-", "r">>,              \* nothing after the r
      <<"r", "1", "-", "s", "1", "9", "6", "0">>,         \* sYYYY after the dash
      <<"S", "1", "9", "6", "0", "-", "r", "1">>,         \* upper case
      <<"s", "1", "9", "6", "0", "-", "x", "1">> }        \* no r after the dash

\* an empty field and a field with a character that is not a word character
OtrosCampos == { <<>>, <<"p", "-", "r">> }

Relleno(k) == [i \in 1..k |-> <<"x">>]

ListasDeCampos ==
    {SubSeq(CamposBase, 1, n) : n \in 1..Len(CamposBase)}
        \cup {Relleno(k) \o CamposBase : k \in 1..(MaxCampos - Len(CamposBase))}
        \cup {CamposBase \o Relleno(k) : k \in 1..(MaxCampos - Len(CamposBase))}
        \cup {[CamposBase EXCEPT ![k] = f] : k \in 1..Len(CamposBase), f \in OtrosCampos}
        \cup {[CamposBase EXCEPT ![5] = m] : m \in MiembrosDudosos}
        \cup {<<f, g>> : f \in OtrosCampos, g \in OtrosCampos}
        \cup {<<f, g, CM6>> : f \in OtrosCampos, g \in OtrosCampos}

\* rglob("*.nc") gives names that end in .nc
NombresPosibles == {join("_", campos) \o <<".", "n", "c">> : campos \in ListasDeCampos}

\* the directory of the cache that holds the file
Segmentos == {Dv1, Ds1960r1} \cup MiembrosDudosos

ArchivosDeNombres == {<<d, nombre>> : d \in Segmentos, nombre \in NombresPosibles}

Archivos == DOMAIN Catalogo \cup ArchivosDeNombres

\* what the two extractions give for each file a cache may hold, computed once
modelo_de ==
    [archivo \in Archivos |-> extraer_modelo_desde_nombre(Nombre(archivo))]
miembro_de ==
    [archivo \in Archivos |-> extraer_subexp_y_ensamble_desde_ruta(archivo)]

Variantes == {"mover_nc_cache_a_salida", "reorganizar_datos", "mover_archivos"}

SubconjuntosHasta(S, n) == {T \in SUBSET S : Cardinality(T) <= n}

InitReubicar ==
    /\ \E S \in SubconjuntosHasta(DOMAIN Catalogo, MaxArchivos) :
           cache = Restringir(Catalogo, S)
    /\ \E S \in SubconjuntosHasta(DOMAIN Previos, MaxPrevios) :
           /\ salida = Restringir(Previos, S)
           /\ dirs = {SubSeq(d, 1, 3) : d \in S}
    /\ variante \in Variantes
    /\ pc = "reposo"
    /\ pendientes = {}
    /\ movidos = 0
    /\ omitidos = 0
    /\ errores = 0
    /\ bitacora = <<>>
    /\ cache0 = <<>>
    /\ salida0 = <<>>
    /\ n_pasada = 0
    /\ n_fallos = 0
    /\ fallo_pasada = FALSE
    /\ previa = <<>>

\* no run of DescargadorDatosESGF.ejecutar
SinEjecutar ==
    /\ pcE = "no"
    /\ claves_catalogo = {}
    /\ resultado_descarga = {}
    /\ claves_fallidas = {}
    /\ csv_fallos = <<>>
    /\ csv0 = <<>>
    /\ csv_error = FALSE

\* no run has reached the failed-download CSV
SinCsv == historial = <<>>

\* no call of leer_tareas_desde_csv
SinTareas ==
    /\ filtro_modelo = <<>>
    /\ tareas = <<>>

\* no run of the retry driver
SinReintento ==
    /\ pcR = "no"
    /\ resultados = <<>>
    /\ estado = ""
    /\ detalle = [texto |-> <<>>, datasets |-> <<>>]
    /\ llamadas = <<>>
    /\ reporte_descarga = <<>>
    /\ raices = {}

\* no two passes at once
SinConcurrencia ==
    /\ cacheP = <<>>
    /\ pcP = <<>>
    /\ pendP = <<>>
    /\ enMano = <<>>
    /\ cuentaP = <<>>
    /\ reemplazados = {}
    /\ solapadas = FALSE

\* no run of orquestar_pipeline.py
SinOrquestar ==
    /\ argv = <<>>
    /\ args = {}
    /\ pasos = <<>>
    /\ pcO = "no"
    /\ impresos = <<>>
    /\ ejecutados = <<>>
    /\ codigo_salida = <<>>
    /\ completada = FALSE

\* the configuration main of descargar_datos.py builds from its defaults:
\* --source_id and variable_id "pr"
ConfiguracionDeMain ==
    /\ source_id = Algun(CM6)
    /\ variable_id = Algun(<<"p", "r">>)

\* no call of calcular_faltantes
SinFaltantes ==
    /\ registros = <<>>
    /\ inicio = <<>>
    /\ fin = <<>>
    /\ pcF = "no"
    /\ filas = <<>>
    /\ locales = <<>>
    /\ reporte = <<>>

\* rglob("*.nc") over the cache, counters at 0; the order in which the files
\* come is the file system's
Resumen(completa) ==
    [completa |-> completa, fallo |-> fallo_pasada, movidos |-> movidos,
     omitidos |-> omitidos, errores |-> errores, cache0 |-> cache0,
     salida0 |-> salida0, salida |-> salida]

IniciarPasada ==
    /\ pc \in {"reposo", "completa", "interrumpida"}
    /\ n_pasada < MaxPasadas
    /\ previa' = IF pc = "reposo" THEN Ninguno ELSE Algun(Resumen(pc = "completa"))
    /\ pc' = "pasada"
    /\ pendientes' = DOMAIN cache
    /\ movidos' = 0
    /\ omitidos' = 0
    /\ errores' = 0
    /\ bitacora' = <<>>
    /\ cache0' = cache
    /\ salida0' = salida
    /\ n_pasada' = n_pasada + 1
    /\ fallo_pasada' = FALSE
    /\ UNCHANGED <<cache, salida, dirs, variante, n_fallos>>
    /\ UNCHANGED ajenoReubicar

Anotar(archivo, marca) == bitacora' = (archivo :> marca) @@ bitacora

\* a failure that is noted and not counted
AnotarSinContar(archivo, marca) ==
    /\ Anotar(archivo, marca)
    /\ UNCHANGED <<cache, salida, movidos, omitidos, errores>>

\* the file is counted as an error and nothing else changes
ContarError(archivo, marca) ==
    /\ Anotar(archivo, marca)
    /\ errores' = errores + 1
    /\ UNCHANGED <<cache, salida, movidos, omitidos>>

\* a skip that is counted as a moved file
ContarOmitidoComoMovido(archivo) ==
    /\ Anotar(archivo, "omitido")
    /\ movidos' = movidos + 1
    /\ UNCHANGED <<cache, salida, omitidos, errores>>

\* if destino.exists(): omitidos += 1 (mover_nc_cache_a_salida);
\* errores += 1 (reorganizar_datos, _mover_archivos); continue
ContarOmitido(archivo) ==
    /\ Anotar(archivo, "omitido")
    /\ IF variante = "mover_nc_cache_a_salida"
       THEN omitidos' = omitidos + 1 /\ UNCHANGED errores
       ELSE errores' = errores + 1 /\ UNCHANGED omitidos
    /\ UNCHANGED <<cache, salida, movidos>>

\* shutil.move(...); movidos += 1
MoverYContar(archivo, destino) ==
    LET r == shutil_move(cache, salida, archivo, destino)
    IN  /\ cache' = r.cache
        /\ salida' = r.salida
        /\ Anotar(archivo, "movido")
        /\ movidos' = movidos + 1
        /\ UNCHANGED <<omitidos, errores>>

\* an operation of the file system raises; except Exception: errores += 1
Falla(archivo, marca) ==
    /\ n_fallos < MaxFallos
    /\ n_fallos' = n_fallos + 1
    /\ fallo_pasada' = TRUE
    /\ ContarError(archivo, marca)

\* one turn of the loop over the discovered files
CuerpoBucle(archivo) ==
    LET modelo == modelo_de[archivo]
        miembro == miembro_de[archivo]
    IN  /\ pendientes' = pendientes \ {archivo}
        /\ UNCHANGED <<variante, pc, cache0, salida0, n_pasada, previa>>
        /\ IF modelo = Ninguno
           THEN /\ ContarError(archivo, "sin_modelo")
                /\ UNCHANGED <<dirs, n_fallos, fallo_pasada>>
           ELSE IF miembro = Ninguno
           THEN /\ ContarError(archivo, "sin_miembro")
                /\ UNCHANGED <<dirs, n_fallos, fallo_pasada>>
           ELSE LET dir == destino_dir(modelo[1], miembro[1][2], miembro[1][1])
                    destino == destino_de(dir, archivo)
                IN  \/ /\ dir \notin dirs          \* mkdir raises
                       /\ Falla(archivo, "error_mkdir")
                       /\ UNCHANGED dirs
                    \/ /\ dirs' = dirs \cup {dir}  \* mkdir(parents, exist_ok)
                       /\ IF exists(salida, destino)
                          THEN /\ ContarOmitido(archivo)
                               /\ UNCHANGED <<n_fallos, fallo_pasada>>
                          ELSE \/ /\ MoverYContar(archivo, destino)
                                  /\ UNCHANGED <<n_fallos, fallo_pasada>>
                               \/ Falla(archivo, "error_move")

mover_nc_cache_a_salida ==
    /\ pc = "pasada"
    /\ variante = "mover_nc_cache_a_salida"
    /\ \E archivo \in pendientes : CuerpoBucle(archivo)
    /\ UNCHANGED ajenoReubicar

reorganizar_datos ==
    /\ pc = "pasada"
    /\ variante = "reorganizar_datos"
    /\ \E archivo \in pendientes : CuerpoBucle(archivo)
    /\ UNCHANGED ajenoReubicar

mover_archivos ==
    /\ pc = "pasada"
    /\ variante = "mover_archivos"
    /\ \E archivo \in pendientes : CuerpoBucle(archivo)
    /\ UNCHANGED ajenoReubicar

\* the loop is over: return (movidos, omitidos, errores) / print the summary
TerminarPasada ==
    /\ pc = "pasada"
    /\ pendientes = {}
    /\ pc' = "completa"
    /\ UNCHANGED <<cache, salida, dirs, variante, pendientes, movidos, omitidos,
                   errores, bitacora, cache0, salida0, n_pasada, n_fallos,
                   fallo_pasada, previa>>
    /\ UNCHANGED ajenoReubicar

\* the process is terminated between two files of a pass
Interrumpir ==
    /\ pc = "pasada"
    /\ pendientes # {}
    /\ n_pasada < MaxPasadas          \* a pass can follow the interrupted one
    /\ pc' = "interrumpida"
    /\ UNCHANGED <<cache, salida, dirs, variante, pendientes, movidos, omitidos,
                   errores, bitacora, cache0, salida0, n_pasada, n_fallos,
                   fallo_pasada, previa>>
    /\ UNCHANGED ajenoReubicar

NextReubicar ==
    \/ IniciarPasada
    \/ mover_nc_cache_a_salida
    \/ reorganizar_datos
    \/ mover_archivos
    \/ TerminarPasada
    \/ Interrumpir

Init ==
    InitReubicar /\ SinEjecutar /\ SinFaltantes /\ SinCsv /\ SinTareas /\ SinReintento
        /\ ConfiguracionDeMain
        /\ SinOrquestar
        /\ SinConcurrencia

Next == NextReubicar

Spec == Init /\ [][Next]_vars

----------------------------------------------------------------------------
(* DescargadorDatosESGF.ejecutar: search, validation, download, failed-key   *)
(* detection and CSV, relocation with _mover_archivos, cache cleanup        *)

Clave == <<"k1", "k2", "k3", "k4">>
ClavesPosibles == {Clave[i] : i \in 1..MaxClaves}

\* the file that the download of a dataset puts in the cache
ArchivoDeClave ==
    ( "k1" :> <<Dv1, Ds1960r1, N60>> ) @@
    ( "k2" :> <<Dv1, N62>> ) @@
    ( "k3" :> <<Dv2, Ds1960r1, N60>> ) @@
    ( "k4" :> <<Ds1960r1, NCorto>> )

\* the header row and a data row of the failed-download CSV
Encabezado == <<"clave_dataset", "source_id", "fecha_intento", "motivo">>
Fila(clave) == <<clave, "M6", "ahora", "Nodo offline o sin informacion de acceso">>

\* the orders in which a set may be iterated
Ordenes(S) ==
    {o \in [1..Cardinality(S) -> S] : \A i, j \in 1..Cardinality(S) : o[i] = o[j] => i = j}

InitEjecutar ==
    /\ InitReubicar
    /\ DOMAIN cache = {}            \* os.makedirs: a fresh cache directory
    /\ variante = "mover_archivos"
    /\ pcE = "inicio"
    /\ claves_catalogo = {}
    /\ resultado_descarga = {}
    /\ claves_fallidas = {}
    /\ csv_fallos \in {Ninguno, Algun(<<Encabezado, Fila("k0")>>)}
    /\ csv0 = csv_fallos
    /\ csv_error = FALSE
    /\ SinFaltantes
    /\ SinCsv
    /\ SinTareas
    /\ SinReintento
    /\ ConfiguracionDeMain
    /\ SinOrquestar
    /\ SinConcurrencia

\* _configurar_directorio_cache .. _ejecutar_busqueda: the catalog answers with
\* a set of keys, or the collaborator raises and the run ends with the error
ejecutar_busqueda ==
    /\ pcE = "inicio"
    /\ \/ \E K \in SUBSET ClavesPosibles :
              /\ claves_catalogo' = K
              /\ pcE' = "buscado"
       \/ /\ pcE' = "abortado"
          /\ UNCHANGED claves_catalogo
    /\ UNCHANGED <<resultado_descarga, claves_fallidas, csv_fallos, csv0, csv_error>>
    /\ UNCHANGED varsReubicar
    /\ UNCHANGED ajenoEjecutar

\* if not self._validar_resultados(): return
validar_resultados ==
    /\ pcE = "buscado"
    /\ pcE' = IF Cardinality(claves_catalogo) = 0 THEN "fin" ELSE "validado"
    /\ UNCHANGED <<claves_catalogo, resultado_descarga, claves_fallidas, csv_fallos,
                   csv0, csv_error>>
    /\ UNCHANGED varsReubicar
    /\ UNCHANGED ajenoEjecutar

\* self._resultado_descarga = self._catalogo.to_dataset_dict(): some keys are
\* materialized and files appear in the cache, or the collaborator raises
ejecutar_descarga_tolerante ==
    /\ pcE = "validado"
    /\ \/ \E D \in SUBSET ClavesPosibles :
              /\ resultado_descarga' = D
              /\ cache' = Restringir(Catalogo, {ArchivoDeClave[k] : k \in D}) @@ cache
              /\ pcE' = "descargado"
       \/ /\ pcE' = "abortado"
          /\ UNCHANGED <<resultado_descarga, cache>>
    /\ UNCHANGED <<claves_catalogo, claves_fallidas, csv_fallos, csv0, csv_error>>
    /\ UNCHANGED <<salida, dirs, variante, pc, pendientes, movidos, omitidos, errores,
                   bitacora, cache0, salida0, n_pasada, n_fallos, fallo_pasada, previa>>
    /\ UNCHANGED ajenoEjecutar

\* a difference taken the other way round
diferencia_invertida(catalogo, descargadas) == descargadas \ catalogo

\* claves_catalogo - claves_descargadas
diferencia_claves(catalogo, descargadas) == catalogo \ descargadas

\* _detectar_fallos
detectar_fallos ==
    /\ pcE = "descargado"
    /\ claves_fallidas' = diferencia_claves(claves_catalogo, resultado_descarga)
    /\ pcE' = "detectado"
    /\ UNCHANGED <<claves_catalogo, resultado_descarga, csv_fallos, csv0, csv_error>>
    /\ UNCHANGED varsReubicar
    /\ UNCHANGED ajenoEjecutar

\* a guard that always asks for the CSV
hay_fallos_siempre(fallidas) == TRUE

\* if self._claves_fallidas:
hay_fallos(fallidas) == fallidas # {}

\* a write that puts the header before the rows of every run
escribir_con_encabezado(archivo_csv, orden) ==
    (IF archivo_csv = Ninguno THEN <<>> ELSE archivo_csv[1])
        \o <<Encabezado>> \o [i \in 1..Len(orden) |-> Fila(orden[i])]

\* _escribir_filas_csv: append mode; the header only if the file is new; one row
\* per failed key, in the order the set is iterated
escribir_filas_csv(archivo_csv, orden) ==
    (IF archivo_csv = Ninguno THEN <<Encabezado>> ELSE archivo_csv[1])
        \o [i \in 1..Len(orden) |-> Fila(orden[i])]

\* the lines the file has, none when there is no file
lineas_de(archivo_csv) == IF archivo_csv = Ninguno THEN <<>> ELSE archivo_csv[1]

\* the file when OSError cuts the write: makedirs or open raised and the file is
\* as it was, or the file was opened (created if new) and only the first n of
\* the lines of this run reached it
escrituras_cortadas(archivo_csv, orden) ==
    LET completas == escribir_filas_csv(archivo_csv, orden)
        antes == Len(lineas_de(archivo_csv))
    IN  {archivo_csv} \cup
        {Algun(SubSeq(completas, 1, antes + n)) : n \in 0..(Len(completas) - antes - 1)}

\* _imprimir_resumen_descarga; if self._claves_fallidas: self._registrar_fallos_csv()
\* where an OSError of the write is logged and the run goes on
registrar_fallos_csv ==
    /\ pcE = "detectado"
    /\ pcE' = "registrado"
    /\ IF hay_fallos(claves_fallidas)
       THEN \E orden \in Ordenes(claves_fallidas) :
                \/ /\ csv_fallos' = Algun(escribir_filas_csv(csv_fallos, orden))
                   /\ UNCHANGED csv_error
                \/ /\ csv_error' = TRUE
                   /\ csv_fallos' \in escrituras_cortadas(csv_fallos, orden)
       ELSE UNCHANGED <<csv_fallos, csv_error>>
    /\ UNCHANGED <<claves_catalogo, resultado_descarga, claves_fallidas, csv0>>
    /\ UNCHANGED varsReubicar
    /\ UNCHANGED ajenoEjecutar

\* _reorganizar_archivos up to the call of _mover_archivos: no .nc file in the
\* cache -> return; else the pass starts over the files found
reorganizar_archivos ==
    /\ pcE = "registrado"
    /\ IF DOMAIN cache = {}
       THEN /\ pcE' = "fin"
            /\ UNCHANGED <<pc, pendientes, movidos, errores, bitacora, cache0,
                           salida0, n_pasada, fallo_pasada>>
       ELSE /\ pcE' = "reorganizando"
            /\ pc' = "pasada"
            /\ pendientes' = DOMAIN cache
            /\ movidos' = 0
            /\ errores' = 0
            /\ bitacora' = <<>>
            /\ cache0' = cache
            /\ salida0' = salida
            /\ n_pasada' = n_pasada + 1
            /\ fallo_pasada' = FALSE
    /\ UNCHANGED <<cache, salida, dirs, variante, omitidos, n_fallos, previa>>
    /\ UNCHANGED <<claves_catalogo, resultado_descarga, claves_fallidas, csv_fallos,
                   csv0, csv_error>>
    /\ UNCHANGED ajenoEjecutar

\* a cleanup that removes no file
rmtree_nada(c) == c

\* shutil.rmtree(self._directorio_cache)
rmtree(c) == Restringir(c, {})

\* _imprimir_resumen_reorganizacion; _limpiar_cache_temporal: the cache tree is
\* removed; if removing raises part-way, a warning is logged
limpiar_cache_temporal ==
    /\ pcE = "reorganizando"
    /\ pc = "completa"
    /\ pcE' = "fin"
    /\ \/ /\ cache' = rmtree(cache)
          /\ UNCHANGED n_fallos
       \/ /\ n_fallos < MaxFallos
          /\ n_fallos' = n_fallos + 1
          /\ \E S \in (SUBSET DOMAIN cache) \ {{}} : cache' = Restringir(cache, S)
    /\ UNCHANGED <<salida, dirs, variante, pc, pendientes, movidos, omitidos, errores,
                   bitacora, cache0, salida0, n_pasada, fallo_pasada, previa>>
    /\ UNCHANGED <<claves_catalogo, resultado_descarga, claves_fallidas, csv_fallos,
                   csv0, csv_error>>
    /\ UNCHANGED ajenoEjecutar

NextEjecutar ==
    \/ ejecutar_busqueda
    \/ validar_resultados
    \/ ejecutar_descarga_tolerante
    \/ detectar_fallos
    \/ registrar_fallos_csv
    \/ reorganizar_archivos
    \/ mover_archivos
    \/ TerminarPasada
    \/ limpiar_cache_temporal

SpecEjecutar == InitEjecutar /\ [][NextEjecutar]_vars

----------------------------------------------------------------------------
(* Runs of DescargadorDatosESGF.ejecutar one after another, as far as the    *)
(* failed-download CSV of one source_id goes: no file before the first run   *)

InitCsv ==
    /\ InitReubicar
    /\ DOMAIN cache = {}
    /\ DOMAIN salida = {}
    /\ variante = "mover_archivos"
    /\ SinEjecutar
    /\ SinFaltantes
    /\ SinCsv
    /\ SinTareas
    /\ SinReintento
    /\ ConfiguracionDeMain
    /\ SinOrquestar
    /\ SinConcurrencia

\* the data rows among the lines that a run added to the file
filas_nuevas(antes, despues) ==
    LET l == lineas_de(despues)
        desde == Len(lineas_de(antes)) + 1
        nuevas == SubSeq(l, desde, Len(l))
    IN  IF nuevas # <<>> /\ antes = Ninguno THEN Tail(nuevas) ELSE nuevas

\* the end of _descargar_datasets in one run: with failed keys the CSV is
\* written, completely or cut by an OSError that is logged; without, it is not
corrida_descargar_datasets ==
    /\ pcE = "no"
    /\ Len(historial) < MaxCorridas
    /\ csv0' = csv_fallos
    /\ \E fallidas \in SUBSET ClavesPosibles :
           /\ claves_fallidas' = fallidas
           /\ IF hay_fallos(fallidas)
              THEN \E orden \in Ordenes(fallidas) :
                       \/ /\ csv_fallos' = Algun(escribir_filas_csv(csv_fallos, orden))
                          /\ csv_error' = FALSE
                       \/ /\ csv_fallos' \in escrituras_cortadas(csv_fallos, orden)
                          /\ csv_error' = TRUE
              ELSE /\ UNCHANGED csv_fallos
                   /\ csv_error' = FALSE
    /\ historial' = Append(historial, [error |-> csv_error',
                                       escritas |-> filas_nuevas(csv_fallos, csv_fallos')])
    /\ UNCHANGED <<pcE, claves_catalogo, resultado_descarga>>
    /\ UNCHANGED <<varsReubicar, varsFaltantes, varsTareas, varsReintento,
                   varsConfiguracion, varsOrquestador, varsConcurrente>>

NextCsv == corrida_descargar_datasets

SpecCsv == InitCsv /\ [][NextCsv]_vars

----------------------------------------------------------------------------
(* calcular_faltantes and main of pipeline/faltantes_detectar.py            *)

CM10 == <<"M", "1", "0">>
Anios == 1960 .. (1959 + MaxAnios)
ClavesModeloEnsamble == {<<CM6, Cr1>>, <<CM10, Cr1>>}

\* @dataclass Registro
Registro(modelo, ensamble, anio) ==
    [modelo |-> modelo, ensamble |-> ensamble, anio |-> anio]

RegistrosPosibles == {Registro(c[1], c[2], a) : c \in ClavesModeloEnsamble, a \in Anios}
ListasHasta(S, n) == UNION {[1..k -> S] : k \in 0..n}
Opcional(S) == {Ninguno} \cup {Algun(x) : x \in S}

\* the order of str: by code point, character by character
PuntosDeCodigo == <<"-", "0", "1", "2", "3", "4", "5", "6", "7", "8", "9",
                    "E", "M", "_", "r", "s">>
ord(c) == CHOOSE i \in 1..Len(PuntosDeCodigo) : PuntosDeCodigo[i] = c

RECURSIVE menor_str(_, _)
menor_str(a, b) ==
    IF a = <<>> THEN b # <<>>
    ELSE IF b = <<>> THEN FALSE
    ELSE IF a[1] = b[1] THEN menor_str(Tail(a), Tail(b))
    ELSE ord(a[1]) < ord(b[1])

\* the order of the tuples (modelo, ensamble)
menor_clave(a, b) ==
    IF a[1] = b[1] THEN menor_str(a[2], b[2]) ELSE menor_str(a[1], b[1])

\* the keys from the greatest to the least
RECURSIVE claves_al_reves(_)
claves_al_reves(S) ==
    IF S = {} THEN <<>>
    ELSE LET m == CHOOSE x \in S : \A y \in S \ {x} : menor_clave(y, x)
         IN  <<m>> \o claves_al_reves(S \ {m})

\* sorted(por_modelo_ensamble.items()): the keys are distinct, they decide
RECURSIVE sorted_claves(_)
sorted_claves(S) ==
    IF S = {} THEN <<>>
    ELSE LET m == CHOOSE x \in S : \A y \in S \ {x} : menor_clave(x, y)
         IN  <<m>> \o sorted_claves(S \ {m})

\* sorted() of a set of int
RECURSIVE sorted_int(_)
sorted_int(S) ==
    IF S = {} THEN <<>>
    ELSE LET m == CHOOSE x \in S : \A y \in S : x <= y
         IN  <<m>> \o sorted_int(S \ {m})

min(S) == CHOOSE x \in S : \A y \in S : x <= y
max(S) == CHOOSE x \in S : \A y \in S : x >= y

\* range(a, b)
range(a, b) == a .. (b - 1)

\* str(anio) of a non-negative int
DigitoDe == <<"0", "1", "2", "3", "4", "5", "6", "7", "8", "9">>
RECURSIVE str(_)
str(n) ==
    IF n < 10 THEN <<DigitoDe[n + 1]>>
    ELSE str(n \div 10) \o <<DigitoDe[(n % 10) + 1]>>

\* por_modelo_ensamble.setdefault(clave, set()).add(registro.anio)
por_modelo_ensamble(regs) ==
    [clave \in {<<regs[i].modelo, regs[i].ensamble>> : i \in 1..Len(regs)} |->
        {regs[i].anio : i \in {j \in 1..Len(regs) :
                                  <<regs[j].modelo, regs[j].ensamble>> = clave}}]

\* a check that also refuses a range of one year
rango_invalido_estricto(inicio_esperado, fin_esperado) == fin_esperado <= inicio_esperado

\* if fin_esperado < inicio_esperado
rango_invalido(inicio_esperado, fin_esperado) == fin_esperado < inicio_esperado

\* the expected years, none taken away
sin_restar(anios_esperados, anios_presentes) == anios_esperados

\* anios_esperados - anios_presentes
diferencia_anios(anios_esperados, anios_presentes) == anios_esperados \ anios_presentes

\* the local values of one iteration of the loop over the groups
grupo(clave, anios_presentes, ini, fi) ==
    LET min_detectado == min(anios_presentes)
        max_detectado == max(anios_presentes)
        inicio_esperado == IF ini # Ninguno THEN ini[1] ELSE min_detectado
        fin_esperado == IF fi # Ninguno THEN fi[1] ELSE max_detectado
        anios_esperados == range(inicio_esperado, fin_esperado + 1)
    IN  [modelo |-> clave[1], ensamble |-> clave[2],
         anios_presentes |-> anios_presentes,
         min_detectado |-> min_detectado, max_detectado |-> max_detectado,
         inicio_esperado |-> inicio_esperado, fin_esperado |-> fin_esperado,
         invalido |-> rango_invalido(inicio_esperado, fin_esperado),
         anios_esperados |-> anios_esperados,
         faltantes |-> sorted_int(diferencia_anios(anios_esperados, anios_presentes))]

\* the dict appended to filas
fila_de(l) ==
    [modelo |-> l.modelo,
     ensamble |-> l.ensamble,
     anio_min_detectado |-> l.min_detectado,
     anio_max_detectado |-> l.max_detectado,
     anio_inicio_esperado |-> l.inicio_esperado,
     anio_fin_esperado |-> l.fin_esperado,
     anios_presentes |-> Cardinality(l.anios_presentes),
     anios_esperados |-> Cardinality(l.anios_esperados),
     anios_faltantes |-> Len(l.faltantes),
     lista_anios_faltantes |->
         join(",", [i \in 1..Len(l.faltantes) |-> str(l.faltantes[i])])]

\* the loop over the sorted groups: the first group with an inverted range
\* raises ValueError and nothing is returned
RECURSIVE bucle_grupos(_, _, _, _, _)
bucle_grupos(claves, grupos, ini, fi, hechos) ==
    IF claves = <<>> THEN [error |-> Ninguno, locales |-> hechos]
    ELSE LET l == grupo(Head(claves), grupos[Head(claves)], ini, fi)
         IN  IF l.invalido
             THEN [error |-> Algun(l.modelo), locales |-> hechos]
             ELSE bucle_grupos(Tail(claves), grupos, ini, fi, Append(hechos, l))

cuerpo_calcular_faltantes(regs, ini, fi) ==
    LET grupos == por_modelo_ensamble(regs)
    IN  bucle_grupos(sorted_claves(DOMAIN grupos), grupos, ini, fi, <<>>)

\* guardar_csv: mode "w", the header and one line per fila
campos == <<"modelo", "ensamble", "anio_min_detectado", "anio_max_detectado",
            "anio_inicio_esperado", "anio_fin_esperado", "anios_presentes",
            "anios_esperados", "anios_faltantes", "lista_anios_faltantes">>

linea_csv(fila) ==
    <<fila.modelo, fila.ensamble, str(fila.anio_min_detectado),
      str(fila.anio_max_detectado), str(fila.anio_inicio_esperado),
      str(fila.anio_fin_esperado), str(fila.anios_presentes),
      str(fila.anios_esperados), str(fila.anios_faltantes),
      fila.lista_anios_faltantes>>

guardar_csv(fs) == <<campos>> \o [i \in 1..Len(fs) |-> linea_csv(fs[i])]

InitFaltantes ==
    /\ InitReubicar
    /\ DOMAIN cache = {}
    /\ DOMAIN salida = {}
    /\ variante = "mover_nc_cache_a_salida"
    /\ SinEjecutar
    /\ SinCsv
    /\ SinTareas
    /\ SinReintento
    /\ ConfiguracionDeMain
    /\ SinOrquestar
    /\ SinConcurrencia
    /\ registros \in ListasHasta(RegistrosPosibles, MaxRegistros)
    /\ inicio \in Opcional(Anios)
    /\ fin \in Opcional(Anios)
    /\ pcF = "inicio"
    /\ filas = <<>>
    /\ locales = <<>>
    /\ reporte = <<>>

\* a call of calcular_faltantes(registros, inicio, fin)
calcular_faltantes ==
    /\ pcF = "inicio"
    /\ LET r == cuerpo_calcular_faltantes(registros, inicio, fin)
       IN  /\ locales' = r.locales
           /\ IF r.error # Ninguno
              THEN /\ pcF' = "ValueError"
                   /\ UNCHANGED filas
              ELSE /\ pcF' = "devuelto"
                   /\ filas' = [i \in 1..Len(r.locales) |-> fila_de(r.locales[i])]
    /\ UNCHANGED <<registros, inicio, fin, reporte>>
    /\ UNCHANGED ajenoFaltantes

\* main, from the registros it has read: none -> a message and return; else
\* calcular_faltantes and guardar_csv
main_faltantes_detectar ==
    /\ pcF = "inicio"
    /\ IF registros = <<>>
       THEN /\ pcF' = "main_sin_registros"
            /\ UNCHANGED <<filas, locales, reporte>>
       ELSE LET r == cuerpo_calcular_faltantes(registros, inicio, fin)
            IN  /\ locales' = r.locales
                /\ IF r.error # Ninguno
                   THEN /\ pcF' = "main_ValueError"
                        /\ UNCHANGED <<filas, reporte>>
                   ELSE /\ pcF' = "main_csv"
                        /\ filas' = [i \in 1..Len(r.locales) |-> fila_de(r.locales[i])]
                        /\ reporte' = Algun(guardar_csv(filas'))
    /\ UNCHANGED <<registros, inicio, fin>>
    /\ UNCHANGED ajenoFaltantes

\* str.strip(): leading and trailing whitespace removed
RECURSIVE strip(_)
strip(s) ==
    IF s = <<>> THEN s
    ELSE IF Head(s) = " " THEN strip(Tail(s))
    ELSE IF s[Len(s)] = " " THEN strip(SubSeq(s, 1, Len(s) - 1))
    ELSE s

\* str.lower() on the letters the names here carry
Minuscula == ( "M" :> "m" ) @@ ( "E" :> "e" )

lower(s) ==
    [i \in 1..Len(s) |-> IF s[i] \in DOMAIN Minuscula THEN Minuscula[s[i]] ELSE s[i]]

\* a in b, for strings
contiene(a, b) ==
    \E i \in 1..(Len(b) - Len(a) + 1) : SubSeq(b, i, i + Len(a) - 1) = a

\* int(texto) is defined on a non-empty run of digits; otherwise ValueError
es_int(texto) == texto # <<>> /\ \A i \in 1..Len(texto) : texto[i] \in Digitos

RECURSIVE int(_)
int(texto) ==
    IF Len(texto) = 1 THEN ord(texto[1]) - ord("0")
    ELSE 10 * int(SubSeq(texto, 1, Len(texto) - 1)) + (ord(texto[Len(texto)]) - ord("0"))

\* a reading of the list that keeps its first year only
parsear_solo_primero(valor) ==
    IF valor = <<>> THEN <<>> ELSE <<int(strip(split(valor, ",")[1]))>>

\* parsear_lista_anios: "" -> []; else the int of every non-empty stripped part
parsear_lista_anios(valor) ==
    IF valor = <<>> THEN <<>>
    ELSE LET partes == split(valor, ",")
             utiles == SelectSeq(partes, LAMBDA v : strip(v) # <<>>)
         IN  [i \in 1..Len(utiles) |-> int(strip(utiles[i]))]

\* every part of the list that int() would refuse
partes_no_enteras(valor) ==
    IF valor = <<>> THEN {}
    ELSE LET partes == split(valor, ",")
         IN  {i \in 1..Len(partes) : strip(partes[i]) # <<>> /\ ~es_int(strip(partes[i]))}

\* TareaDescarga(modelo, ensamble, anio)
TareaDescarga(modelo, ensamble, anio) ==
    [modelo |-> modelo, ensamble |-> ensamble, anio |-> anio]

\* fila.get(columna) or "": DictReader names the fields by the header's position
valor_de(encabezado, fila, columna) ==
    LET donde == {i \in 1..Len(encabezado) : encabezado[i] = columna}
    IN  IF donde = {} THEN <<>>
        ELSE LET i == CHOOSE j \in donde : \A k \in donde : j >= k
             IN  IF i <= Len(fila) THEN fila[i] ELSE <<>>

columnas_requeridas == {"modelo", "ensamble", "lista_anios_faltantes"}

\* the loop over the rows of the reader; a row is skipped when modelo or
\* ensamble is empty, or when the filter is not in modelo.lower()
RECURSIVE bucle_filas(_, _, _, _)
bucle_filas(encabezado, lineas, filtro, acumuladas) ==
    IF lineas = <<>> THEN [error |-> Ninguno, tareas |-> acumuladas]
    ELSE LET fila == Head(lineas)
             modelo == strip(valor_de(encabezado, fila, "modelo"))
             ensamble == strip(valor_de(encabezado, fila, "ensamble"))
             lista == strip(valor_de(encabezado, fila, "lista_anios_faltantes"))
         IN  IF modelo = <<>> \/ ensamble = <<>>
             THEN bucle_filas(encabezado, Tail(lineas), filtro, acumuladas)
             ELSE IF filtro # Ninguno /\ filtro[1] # <<>>
                     /\ ~contiene(lower(filtro[1]), lower(modelo))
             THEN bucle_filas(encabezado, Tail(lineas), filtro, acumuladas)
             ELSE IF partes_no_enteras(lista) # {}
             THEN [error |-> Algun("ValueError"), tareas |-> <<>>]
             ELSE LET anios == parsear_lista_anios(lista)
                  IN  bucle_filas(encabezado, Tail(lineas), filtro,
                                  acumuladas \o [i \in 1..Len(anios) |->
                                      TareaDescarga(modelo, ensamble, anios[i])])

\* leer_tareas_desde_csv(csv_path, filtro_modelo) on the lines of the file:
\* the required columns are checked on the header before any row is read
cuerpo_leer_tareas(lineas, filtro) ==
    LET encabezado == IF lineas = <<>> THEN <<>> ELSE Head(lineas)
        presentes == {encabezado[i] : i \in 1..Len(encabezado)}
    IN  IF ~(columnas_requeridas \subseteq presentes)
        THEN [error |-> Algun("ValueError"), tareas |-> <<>>]
        ELSE bucle_filas(encabezado, Tail(lineas), filtro, <<>>)

Filtros == {Ninguno, Algun(<<"M", "6">>)}

\* the retry driver reads the report main has written
leer_tareas_desde_csv ==
    /\ pcF = "main_csv"
    /\ \E filtro \in Filtros :
          /\ filtro_modelo' = filtro
          /\ LET r == cuerpo_leer_tareas(reporte[1], filtro)
             IN  /\ tareas' = r.tareas
                 /\ pcF' = IF r.error # Ninguno THEN "leer_ValueError" ELSE "tareas_leidas"
    /\ UNCHANGED <<registros, inicio, fin, filas, locales, reporte>>
    /\ UNCHANGED <<varsReubicar, varsEjecutar, varsCsv, varsReintento, varsConfiguracion, varsOrquestador, varsConcurrente>>

NextFaltantes ==
    \/ calcular_faltantes
    \/ main_faltantes_detectar
    \/ leer_tareas_desde_csv

SpecFaltantes == InitFaltantes /\ [][NextFaltantes]_vars

----------------------------------------------------------------------------
(* The retry driver: main of faltantes_descargar, with ya_existe_en_salida, *)
(* descargar_tarea, mover_nc_cache_a_salida and guardar_reporte             *)

NTxt == <<"n", ".", "t", "x", "t">>

\* a missing-years report as main of faltantes_detectar writes it: one record
\* of M6 / r1 whose missing list is the first n years from 1960 on
CsvDe(n) ==
    LET r == cuerpo_calcular_faltantes(<<Registro(CM6, Cr1, 1960 + n)>>,
                                       Algun(1960), Algun(1960 + n))
    IN  guardar_csv([i \in 1..Len(r.locales) |-> fila_de(r.locales[i])])

\* the same file without one of its columns
sin_columna(lineas, columna) ==
    LET k == CHOOSE i \in 1..Len(campos) : campos[i] = columna
    IN  [j \in 1..Len(lineas) |->
            SubSeq(lineas[j], 1, k - 1) \o SubSeq(lineas[j], k + 1, Len(lineas[j]))]

\* --csv-faltantes: no file, an empty file, a report, a report lacking a column
CsvEntrada ==
    {Ninguno, Algun(<<>>)} \cup
    {Algun(CsvDe(n)) : n \in 0..MaxTareas} \cup
    {Algun(sin_columna(CsvDe(1), c)) : c \in columnas_requeridas}

\* --directorio-salida as the driver may find it: empty; s1960 with its .nc
\* file; s1960 empty; s1960 with a file that is no .nc; s1960 with the .nc file
\* one directory further down
DirS1960 == <<CM6, Cr1, Cs1960>>
SalidasIniciales ==
    {[salida |-> Restringir(Previos, {}), dirs |-> {}],
     [salida |-> Restringir(Previos, {DirS1960 \o <<N60>>}), dirs |-> {DirS1960}],
     [salida |-> Restringir(Previos, {}), dirs |-> {DirS1960}],
     [salida |-> (DirS1960 \o <<NTxt>>) :> 9, dirs |-> {DirS1960}],
     [salida |-> (DirS1960 \o <<Dv1, N60>>) :> 10,
      dirs |-> {DirS1960, DirS1960 \o <<Dv1>>}]}

\* tarea.sub_experiment_id
sub_experiment_id(tarea) == <<"s">> \o str(tarea.anio)

\* fnmatch of a name against "*.nc"
coincide_nc(nombre) ==
    Len(nombre) >= 3 /\ SubSeq(nombre, Len(nombre) - 2, Len(nombre)) = <<".", "n", "c">>

\* destino.glob("*.nc"): the entries directly in destino, files and
\* directories alike, whose name matches
glob_nc(arbol, directorios, destino) ==
    {e \in DOMAIN arbol \cup directorios :
        /\ Len(e) = Len(destino) + 1
        /\ SubSeq(e, 1, Len(destino)) = destino
        /\ coincide_nc(e[Len(e)])}

\* a check that never finds the task satisfied
ya_existe_nunca(tarea, arbol, directorios) == FALSE

\* a check that is satisfied by the directory alone
ya_existe_solo_directorio(tarea, arbol, directorios) ==
    <<tarea.modelo, tarea.ensamble, sub_experiment_id(tarea)>> \in directorios

\* ya_existe_en_salida: destino.exists() and any(destino.glob("*.nc"))
ya_existe_en_salida(tarea, arbol, directorios) ==
    LET destino == <<tarea.modelo, tarea.ensamble, sub_experiment_id(tarea)>>
    IN  IF destino \notin directorios THEN FALSE
        ELSE glob_nc(arbol, directorios, destino) # {}

\* what the collaborator does when asked: search raises (none) or leaves n
\* keys in catalogo.df; to_dataset_dict raises (none) or returns n datasets,
\* and in both cases may have left files in the cache
Excepcion == [tipo |-> "ConnectionError", mensaje |-> "nodo sin respuesta"]
Traidos ==
    {{}, {<<Dv1, Ds1960r1, N60>>}, {<<Ds1961r1, N60>>},
     {<<Ds1961r1, N60>>, <<Ds1960r1, NCorto>>}}
Colaboradores ==
    [busqueda : Opcional(0..1), descarga : Opcional(0..2), traidos : Traidos]

\* the (estado, detalle) pairs of descargar_tarea; the text of detalle in pieces
Detalle(texto, datasets) == [texto |-> texto, datasets |-> datasets]

\* a descargar_tarea that fetches and reports descargado whatever happens
descargar_sin_clasificar(col) ==
    [estado |-> "descargado", detalle |-> Detalle(<<"Datasets descargados: ">>, Algun(0)),
     llamada |-> TRUE, descarga |-> col.descarga, traidos |-> col.traidos]

\* descargar_tarea, everything inside try ... except Exception; descarga tells
\* whether to_dataset_dict was called and what it did
cuerpo_descargar_tarea(col) ==
    IF col.busqueda = Ninguno
    THEN [estado |-> "error",
          detalle |-> Detalle(<<Excepcion.tipo, ": ", Excepcion.mensaje>>, Ninguno),
          llamada |-> FALSE, descarga |-> Ninguno, traidos |-> {}]
    ELSE IF col.busqueda[1] = 0
    THEN [estado |-> "sin_resultados",
          detalle |-> Detalle(<<"No hay resultados en ESGF para esa combinacion.">>,
                              Ninguno),
          llamada |-> FALSE, descarga |-> Ninguno, traidos |-> {}]
    ELSE IF col.descarga = Ninguno
    THEN [estado |-> "error",
          detalle |-> Detalle(<<Excepcion.tipo, ": ", Excepcion.mensaje>>, Ninguno),
          llamada |-> TRUE, descarga |-> Ninguno, traidos |-> col.traidos]
    ELSE IF col.descarga[1] = 0
    THEN [estado |-> "sin_descarga",
          detalle |-> Detalle(<<"La busqueda devolvio filas, pero no se pudo descargar.">>,
                              Ninguno),
          llamada |-> TRUE, descarga |-> col.descarga, traidos |-> col.traidos]
    ELSE [estado |-> "descargado",
          detalle |-> Detalle(<<"Datasets descargados: ">>, col.descarga),
          llamada |-> TRUE, descarga |-> col.descarga, traidos |-> col.traidos]

\* the dict appended to resultados
fila_resultado(tarea, est, det) ==
    [modelo |-> tarea.modelo, ensamble |-> tarea.ensamble, anio |-> tarea.anio,
     estado |-> est, detalle |-> det]

\* f"{detalle} | movidos={movidos}, omitidos={omitidos}, errores_mov={errores}"
detalle_final(det, mov, omi, err) ==
    [detalle |-> det, movidos |-> mov, omitidos |-> omi, errores_mov |-> err]

campos_reporte == <<"modelo", "ensamble", "anio", "estado", "detalle">>

\* a report written last row first
guardar_reporte_al_reves(rs) ==
    <<campos_reporte>> \o
    [i \in 1..Len(rs) |->
        LET r == rs[Len(rs) + 1 - i]
        IN  <<r.modelo, r.ensamble, str(r.anio), r.estado, r.detalle>>]

\* guardar_reporte: mode "w", writeheader, writerows
guardar_reporte(rs) ==
    <<campos_reporte>> \o
    [i \in 1..Len(rs) |->
        <<rs[i].modelo, rs[i].ensamble, str(rs[i].anio), rs[i].estado, rs[i].detalle>>]

\* salida_dir exists when something lies under it; cache_dir is yet to be made
raices_de(directorios) == IF directorios = {} THEN {} ELSE {"salida_dir"}

InitReintento ==
    /\ cache = Restringir(Catalogo, {})
    /\ \E inicial \in SalidasIniciales :
           /\ salida = inicial.salida
           /\ dirs = inicial.dirs
    /\ variante = "mover_nc_cache_a_salida"
    /\ pc = "reposo"
    /\ pendientes = {}
    /\ movidos = 0
    /\ omitidos = 0
    /\ errores = 0
    /\ bitacora = <<>>
    /\ cache0 = <<>>
    /\ salida0 = <<>>
    /\ n_pasada = 0
    /\ n_fallos = 0
    /\ fallo_pasada = FALSE
    /\ previa = <<>>
    /\ SinEjecutar
    /\ SinCsv
    /\ SinTareas
    /\ registros = <<>>
    /\ inicio = <<>>
    /\ fin = <<>>
    /\ pcF = "no"
    /\ filas = <<>>
    /\ locales = <<>>
    /\ reporte \in CsvEntrada
    /\ pcR = "inicio"
    /\ resultados = <<>>
    /\ estado = ""
    /\ detalle = [texto |-> <<>>, datasets |-> <<>>]
    /\ llamadas = <<>>
    /\ reporte_descarga = <<>>
    /\ raices = raices_de(dirs)
    /\ ConfiguracionDeMain
    /\ SinOrquestar
    /\ SinConcurrencia

\* main up to the loop: FileNotFoundError without the CSV; leer_tareas_desde_csv
\* may raise ValueError; no task -> a message and return
main_leer_tareas ==
    /\ pcR = "inicio"
    /\ IF reporte = Ninguno
       THEN /\ pcR' = "FileNotFoundError"
            /\ UNCHANGED <<varsTareas, raices>>
       ELSE \E filtro \in {Ninguno, Algun(CM10)} :
                LET r == cuerpo_leer_tareas(reporte[1], filtro)
                IN  /\ raices' = raices \cup {"cache_dir", "salida_dir"}
                    /\ filtro_modelo' = filtro
                    /\ tareas' = r.tareas
                    /\ pcR' = IF r.error # Ninguno THEN "ValueError"
                              ELSE IF r.tareas = <<>> THEN "sin_tareas"
                              ELSE "bucle"
    /\ UNCHANGED <<resultados, estado, detalle, llamadas, reporte_descarga>>
    /\ UNCHANGED <<varsReubicar, varsEjecutar, varsFaltantes, varsCsv, varsConfiguracion, varsOrquestador, varsConcurrente>>

\* mover_nc_cache_a_salida(cache_dir, salida_dir) has returned its counters
pasada_a_medias == pc \in {"pasada", "completa"}
pasada_devuelta == pc = "completa"

\* one turn of the loop up to the call of mover_nc_cache_a_salida: a task that
\* ya_existe_en_salida gets its row and the loop continues; else descargar_tarea
\* is called and the relocation pass starts over the cache
descargar_tarea ==
    /\ pcR = "bucle"
    /\ Len(resultados) < Len(tareas)
    /\ LET tarea == tareas[Len(resultados) + 1]
       IN  IF ya_existe_en_salida(tarea, salida, dirs)
           THEN /\ resultados' = Append(resultados,
                        fila_resultado(tarea, "ya_existe",
                            Detalle(<<"Ya habia al menos un .nc en destino.">>, Ninguno)))
                /\ UNCHANGED <<pcR, estado, detalle, llamadas>>
                /\ UNCHANGED varsReubicar
           ELSE \E col \in Colaboradores :
                    LET r == cuerpo_descargar_tarea(col)
                    IN  /\ estado' = r.estado
                        /\ detalle' = r.detalle
                        /\ llamadas' = Append(llamadas,
                               [tarea |-> Len(resultados) + 1,
                                busqueda |-> col.busqueda,
                                llamada |-> r.llamada, descarga |-> r.descarga])
                        /\ cache' = Restringir(Catalogo, r.traidos) @@ cache
                        /\ pcR' = "reubicando"
                        /\ pc' = "pasada"
                        /\ pendientes' = DOMAIN cache'
                        /\ movidos' = 0
                        /\ omitidos' = 0
                        /\ errores' = 0
                        /\ bitacora' = <<>>
                        /\ cache0' = cache'
                        /\ salida0' = salida
                        /\ n_pasada' = n_pasada + 1
                        /\ fallo_pasada' = FALSE
                        /\ UNCHANGED <<salida, dirs, variante, n_fallos, previa>>
                        /\ UNCHANGED resultados
    /\ UNCHANGED <<reporte_descarga, raices, varsTareas>>
    /\ UNCHANGED <<varsEjecutar, varsFaltantes, varsCsv, varsConfiguracion, varsOrquestador, varsConcurrente>>

\* the pass has returned: detalle_final and resultados.append
registrar_resultado ==
    /\ pcR = "reubicando"
    /\ pasada_devuelta
    /\ resultados' = Append(resultados,
           fila_resultado(tareas[Len(resultados) + 1], estado,
                          detalle_final(detalle, movidos, omitidos, errores)))
    /\ pcR' = "bucle"
    /\ UNCHANGED <<estado, detalle, llamadas, reporte_descarga, raices, varsTareas>>
    /\ UNCHANGED <<varsReubicar, varsEjecutar, varsFaltantes, varsCsv, varsConfiguracion, varsOrquestador, varsConcurrente>>

\* after the loop: guardar_reporte(resultados, ruta_reporte)
main_guardar_reporte ==
    /\ pcR = "bucle"
    /\ Len(resultados) = Len(tareas)
    /\ reporte_descarga' = Algun(guardar_reporte(resultados))
    /\ pcR' = "fin"
    /\ UNCHANGED <<resultados, estado, detalle, llamadas, raices, varsTareas>>
    /\ UNCHANGED <<varsReubicar, varsEjecutar, varsFaltantes, varsCsv, varsConfiguracion, varsOrquestador, varsConcurrente>>

NextReintento ==
    \/ main_leer_tareas
    \/ descargar_tarea
    \/ mover_nc_cache_a_salida
    \/ TerminarPasada
    \/ registrar_resultado
    \/ main_guardar_reporte

SpecReintento == InitReintento /\ [][NextReintento]_vars

----------------------------------------------------------------------------
(* Validation of what a run is given: ConfiguracionBusqueda at construction *)
(* for descargar_datos.py, the columns of the CSV for the retry driver      *)

\* what a field of the configuration may be given as: None, "", blanks, a name
ValoresDeCampo(nombre) == {Ninguno, Algun(<<>>), Algun(<<" ", " ">>), Algun(nombre)}

\* a test that takes blanks for a value
vacio_sin_strip(valor) == valor = Ninguno \/ valor[1] = <<>>

\* not valor or not valor.strip()
vacio(valor) == valor = Ninguno \/ valor[1] = <<>> \/ strip(valor[1]) = <<>>

\* ConfiguracionBusqueda.__post_init__: the ValueError it raises, if any
post_init(fuente, variable) ==
    IF vacio(fuente) THEN Algun("'source_id' no puede estar vacio.")
    ELSE IF vacio(variable) THEN Algun("'variable_id' no puede estar vacio.")
    ELSE Ninguno

\* one of the two programs is started: descargar_datos.py with some
\* configuration, or the retry driver with some CSV
InitValidacion ==
    \/ /\ InitReubicar
       /\ DOMAIN cache = {}
       /\ variante = "mover_archivos"
       /\ pcE = "construccion"
       /\ claves_catalogo = {}
       /\ resultado_descarga = {}
       /\ claves_fallidas = {}
       /\ csv_fallos = Ninguno
       /\ csv0 = csv_fallos
       /\ csv_error = FALSE
       /\ SinFaltantes
       /\ SinCsv
       /\ SinTareas
       /\ SinReintento
       /\ source_id \in ValoresDeCampo(CM6)
       /\ variable_id \in ValoresDeCampo(<<"p", "r">>)
       /\ SinOrquestar
       /\ SinConcurrencia
    \/ InitReintento

\* config = ConfiguracionBusqueda(...); DescargadorDatosESGF(..., configuracion=config):
\* a ValueError of __post_init__ leaves the try block of the script
construir ==
    /\ pcE = "construccion"
    /\ pcE' = IF post_init(source_id, variable_id) # Ninguno THEN "ValueError" ELSE "inicio"
    /\ UNCHANGED <<claves_catalogo, resultado_descarga, claves_fallidas, csv_fallos,
                   csv0, csv_error>>
    /\ UNCHANGED varsReubicar
    /\ UNCHANGED <<varsFaltantes, varsCsv, varsTareas, varsReintento, varsConfiguracion, varsOrquestador, varsConcurrente>>

NextValidacion ==
    \/ construir
    \/ NextEjecutar
    \/ NextReintento

SpecValidacion == InitValidacion /\ [][NextValidacion]_vars

----------------------------------------------------------------------------
(* Detection over the destination tree: extraer_registro on every .nc file  *)
(* that main of faltantes_detectar finds, then calcular_faltantes           *)

Letras ==
    {"a", "b", "c", "d", "e", "f", "g", "h", "i", "j", "k", "l", "m", "n", "o",
     "p", "q", "r", "s", "t", "u", "v", "w", "x", "y", "z",
     "A", "B", "C", "D", "E", "F", "G", "H", "I", "J", "K", "L", "M", "N", "O",
     "P", "Q", "R", "S", "T", "U", "V", "W", "X", "Y", "Z"}

\* \w
es_palabra(c) == c \in Letras \cup Digitos \cup {"_"}

\* ^(?P<variable>\w+)_(?P<table>\w+)_ on what precedes the last five fields:
\* word characters only, underscores among them, and one underscore with
\* something on both sides
coincide_variable_tabla(texto) ==
    /\ \A i \in 1..Len(texto) : es_palabra(texto[i])
    /\ \E i \in 2..(Len(texto) - 1) : texto[i] = "_"

\* PATRON_NOMBRE.match(nombre): the groups source and member, if it matches.
\* The five fields [^_]+ are the last five; variable and table take the rest
campos_nombre(nombre) ==
    IF ~coincide_nc(nombre) THEN Ninguno
    ELSE LET partes == split(SubSeq(nombre, 1, Len(nombre) - 3), "_")
             n == Len(partes)
         IN  IF n < 7 THEN Ninguno
             ELSE IF \E i \in (n - 4)..n : partes[i] = <<>> THEN Ninguno
             ELSE IF ~coincide_variable_tabla(join("_", SubSeq(partes, 1, n - 5)))
             THEN Ninguno
             ELSE Algun([source |-> partes[n - 4], member |-> partes[n - 2]])

\* PATRON_ANIO_MEMBER.search(member): the first "s" followed by four digits
anio_en_member(member) ==
    LET donde == {i \in 1..(Len(member) - 4) :
                     /\ member[i] = "s"
                     /\ \A j \in 1..4 : member[i + j] \in Digitos}
    IN  IF donde = {} THEN Ninguno
        ELSE LET i == CHOOSE k \in donde : \A l \in donde : k <= l
             IN  Algun(int(SubSeq(member, i + 1, i + 4)))

\* member.split("-", 1)[1] if "-" in member else member
ensamble_de_member(member) ==
    IF \A i \in 1..Len(member) : member[i] # "-" THEN member
    ELSE LET k == CHOOSE i \in 1..Len(member) :
                      member[i] = "-" /\ \A j \in 1..(i - 1) : member[j] # "-"
         IN  SubSeq(member, k + 1, Len(member))

\* extraer_registro(path_nc): from the name only
extraer_registro(ruta) ==
    LET c == campos_nombre(Nombre(ruta))
    IN  IF c = Ninguno THEN Ninguno
        ELSE LET anio == anio_en_member(c[1].member)
             IN  IF anio = Ninguno THEN Ninguno
                 ELSE Algun(Registro(c[1].source, ensamble_de_member(c[1].member), anio[1]))

\* for archivo_nc in base.rglob("*.nc"): the registros main gathers, in the
\* order in which the file system gives the files
RECURSIVE registros_de(_, _)
registros_de(arbol, rutas) ==
    IF rutas = {} THEN <<>>
    ELSE LET ruta == CHOOSE r \in rutas : TRUE
             registro == extraer_registro(ruta)
         IN  (IF coincide_nc(Nombre(ruta)) /\ registro # Ninguno
              THEN <<registro[1]>> ELSE <<>>)
             \o registros_de(arbol, rutas \ {ruta})

\* main of faltantes_detectar over the tree, --inicio and --fin not given:
\* the rows of calcular_faltantes
filas_detectadas(arbol) ==
    LET regs == registros_de(arbol, DOMAIN arbol)
    IN  IF regs = <<>> THEN <<>>
        ELSE cuerpo_calcular_faltantes(regs, Ninguno, Ninguno).locales

----------------------------------------------------------------------------
(* The parsers on names of every shape: one file in the cache, a relocation *)
(* pass over it, and main of faltantes_detectar over the directory that     *)
(* holds the cache and the destination tree                                 *)

InitNombres ==
    /\ \E archivo \in ArchivosDeNombres :
           \/ cache = (archivo :> 11)
           \/ cache = (archivo :> 11) @@ (<<Ds1960r1, NCorto>> :> 5)
    /\ salida = <<>>
    /\ dirs = {}
    /\ variante \in Variantes
    /\ pc = "reposo"
    /\ pendientes = {}
    /\ movidos = 0
    /\ omitidos = 0
    /\ errores = 0
    /\ bitacora = <<>>
    /\ cache0 = <<>>
    /\ salida0 = <<>>
    /\ n_pasada = 0
    /\ n_fallos = 0
    /\ fallo_pasada = FALSE
    /\ previa = <<>>
    /\ SinEjecutar
    /\ SinCsv
    /\ SinTareas
    /\ SinReintento
    /\ ConfiguracionDeMain
    /\ SinOrquestar
    /\ SinConcurrencia
    /\ registros = <<>>
    /\ inicio = Ninguno
    /\ fin = Ninguno
    /\ pcF = "directorio"
    /\ filas = <<>>
    /\ locales = <<>>
    /\ reporte = <<>>

\* main of faltantes_detectar, --filtro-modelo, --inicio and --fin not given:
\* extraer_registro on every .nc file under the directory, then
\* calcular_faltantes and guardar_csv if there is any registro
main_detectar_directorio ==
    /\ pcF = "directorio"
    /\ registros' = registros_de(cache, DOMAIN cache) \o registros_de(salida, DOMAIN salida)
    /\ IF registros' = <<>>
       THEN /\ pcF' = "main_sin_registros"
            /\ UNCHANGED <<filas, locales, reporte>>
       ELSE LET r == cuerpo_calcular_faltantes(registros', inicio, fin)
            IN  /\ locales' = r.locales
                /\ IF r.error # Ninguno
                   THEN /\ pcF' = "main_ValueError"
                        /\ UNCHANGED <<filas, reporte>>
                   ELSE /\ pcF' = "main_csv"
                        /\ filas' = [i \in 1..Len(r.locales) |-> fila_de(r.locales[i])]
                        /\ reporte' = Algun(guardar_csv(filas'))
    /\ UNCHANGED <<inicio, fin>>
    /\ UNCHANGED ajenoFaltantes

NextNombres ==
    \/ NextReubicar
    \/ main_detectar_directorio

SpecNombres == InitNombres /\ [][NextNombres]_vars

----------------------------------------------------------------------------
(* calcular_faltantes on registros of several models and ensembles          *)

Cr2 == <<"r", "2">>

RegistrosDeGrupos ==
    {Registro(m, e, a) : m \in {CM6, CM10}, e \in {Cr1, Cr2}, a \in {1960, 1961}}

InitGrupos ==
    /\ InitReubicar
    /\ DOMAIN cache = {}
    /\ DOMAIN salida = {}
    /\ variante = "mover_nc_cache_a_salida"
    /\ SinEjecutar
    /\ SinCsv
    /\ SinTareas
    /\ SinReintento
    /\ ConfiguracionDeMain
    /\ SinOrquestar
    /\ SinConcurrencia
    /\ registros \in ListasHasta(RegistrosDeGrupos, MaxRegistros)
    /\ inicio \in Opcional({1960, 1961})
    /\ fin \in Opcional({1960, 1961})
    /\ pcF = "inicio"
    /\ filas = <<>>
    /\ locales = <<>>
    /\ reporte = <<>>

NextGrupos ==
    \/ calcular_faltantes
    \/ main_faltantes_detectar

SpecGrupos == InitGrupos /\ [][NextGrupos]_vars

----------------------------------------------------------------------------
(* Two relocation passes at once, each over its own cache, into the same    *)
(* destination tree.  Between destino.exists() and shutil.move the other    *)
(* pass may take a step.                                                    *)

Pasadas == {1, 2}

\* two files with the same destination and one whose destination may be taken
CatalogoConcurrente ==
    {<<Dv1, Ds1960r1, N60>>, <<Dv2, Ds1960r1, N60>>, <<Ds1961r1, Ds1962r1, N62>>}

\* the files of the cache of pass p; the content tells the cache it came from
CacheDe(p, S) == [archivo \in S |-> 10 * p + Catalogo[archivo]]

Ceros == [movidos |-> 0, omitidos |-> 0, errores |-> 0]

InitConcurrente ==
    /\ cache = Restringir(Catalogo, {})
    /\ \E S \in SubconjuntosHasta(DOMAIN Previos, MaxPrevios) :
           /\ salida = Restringir(Previos, S)
           /\ dirs = {SubSeq(d, 1, 3) : d \in S}
    /\ salida0 = salida
    /\ variante \in Variantes
    /\ pc = "reposo"
    /\ pendientes = {}
    /\ movidos = 0
    /\ omitidos = 0
    /\ errores = 0
    /\ bitacora = <<>>
    /\ cache0 = <<>>
    /\ n_pasada = 0
    /\ n_fallos = 0
    /\ fallo_pasada = FALSE
    /\ previa = <<>>
    /\ SinEjecutar
    /\ SinFaltantes
    /\ SinCsv
    /\ SinTareas
    /\ SinReintento
    /\ ConfiguracionDeMain
    /\ SinOrquestar
    /\ \E S1, S2 \in SubconjuntosHasta(CatalogoConcurrente, MaxEnPasada) :
           cacheP = ( 1 :> CacheDe(1, S1) ) @@ ( 2 :> CacheDe(2, S2) )
    /\ pcP = [p \in Pasadas |-> "inicio"]
    /\ pendP = [p \in Pasadas |-> {}]
    /\ enMano = [p \in Pasadas |-> Ninguno]
    /\ cuentaP = [p \in Pasadas |-> Ceros]
    /\ reemplazados = {}
    /\ solapadas = FALSE

quietoReubicar ==
    UNCHANGED <<cache, variante, pc, pendientes, movidos, omitidos, errores, bitacora,
                cache0, salida0, n_pasada, n_fallos, fallo_pasada, previa>>

\* for archivo in cache_dir.rglob("*.nc"): the pass discovers its files
descubrir(p) ==
    /\ pcP[p] = "inicio"
    /\ pcP' = [pcP EXCEPT ![p] = "pasada"]
    /\ pendP' = [pendP EXCEPT ![p] = DOMAIN cacheP[p]]
    /\ solapadas' = (solapadas \/ \E q \in Pasadas \ {p} : pcP[q] = "pasada")
    /\ UNCHANGED <<cacheP, enMano, cuentaP, reemplazados, salida, dirs>>
    /\ quietoReubicar
    /\ UNCHANGED <<varsEjecutar, varsFaltantes, varsCsv, varsTareas, varsReintento,
                   varsConfiguracion, varsOrquestador>>

\* the body of the loop for one file up to and including destino.exists():
\* no model or no member -> errores += 1; mkdir; the destination is taken ->
\* omitidos += 1 (errores += 1 in reorganizar_datos and _mover_archivos);
\* else the pass goes on to shutil.move
comprobar(p) ==
    /\ pcP[p] = "pasada"
    /\ enMano[p] = Ninguno
    /\ \E archivo \in pendP[p] :
          LET modelo == modelo_de[archivo]
              miembro == miembro_de[archivo]
              c == cuentaP[p]
          IN  IF modelo = Ninguno \/ miembro = Ninguno
              THEN /\ cuentaP' = [cuentaP EXCEPT ![p].errores = c.errores + 1]
                   /\ pendP' = [pendP EXCEPT ![p] = @ \ {archivo}]
                   /\ UNCHANGED <<enMano, dirs>>
              ELSE LET dir == destino_dir(modelo[1], miembro[1][2], miembro[1][1])
                       destino == destino_de(dir, archivo)
                   IN  /\ dirs' = dirs \cup {dir}
                       /\ IF exists(salida, destino)
                          THEN /\ cuentaP' =
                                      IF variante = "mover_nc_cache_a_salida"
                                      THEN [cuentaP EXCEPT ![p].omitidos = c.omitidos + 1]
                                      ELSE [cuentaP EXCEPT ![p].errores = c.errores + 1]
                               /\ pendP' = [pendP EXCEPT ![p] = @ \ {archivo}]
                               /\ UNCHANGED enMano
                          ELSE /\ enMano' = [enMano EXCEPT ![p] =
                                      Algun([archivo |-> archivo, destino |-> destino])]
                               /\ UNCHANGED <<cuentaP, pendP>>
    /\ UNCHANGED <<cacheP, pcP, reemplazados, solapadas, salida>>
    /\ quietoReubicar
    /\ UNCHANGED <<varsEjecutar, varsFaltantes, varsCsv, varsTareas, varsReintento,
                   varsConfiguracion, varsOrquestador>>

\* shutil.move(str(archivo), str(destino)); movidos += 1
mover(p) ==
    /\ pcP[p] = "pasada"
    /\ enMano[p] # Ninguno
    /\ LET archivo == enMano[p][1].archivo
           destino == enMano[p][1].destino
           r == shutil_move(cacheP[p], salida, archivo, destino)
       IN  /\ cacheP' = [cacheP EXCEPT ![p] = r.cache]
           /\ salida' = r.salida
           /\ reemplazados' =
                  IF destino \in DOMAIN salida THEN reemplazados \cup {destino}
                  ELSE reemplazados
           /\ cuentaP' = [cuentaP EXCEPT ![p].movidos = @ + 1]
           /\ pendP' = [pendP EXCEPT ![p] = @ \ {archivo}]
           /\ enMano' = [enMano EXCEPT ![p] = Ninguno]
    /\ UNCHANGED <<pcP, solapadas, dirs>>
    /\ quietoReubicar
    /\ UNCHANGED <<varsEjecutar, varsFaltantes, varsCsv, varsTareas, varsReintento,
                   varsConfiguracion, varsOrquestador>>

\* the loop is over: the pass returns its counters
devolver(p) ==
    /\ pcP[p] = "pasada"
    /\ pendP[p] = {}
    /\ pcP' = [pcP EXCEPT ![p] = "fin"]
    /\ UNCHANGED <<cacheP, pendP, enMano, cuentaP, reemplazados, solapadas, salida, dirs>>
    /\ quietoReubicar
    /\ UNCHANGED <<varsEjecutar, varsFaltantes, varsCsv, varsTareas, varsReintento,
                   varsConfiguracion, varsOrquestador>>

NextConcurrente ==
    \E p \in Pasadas :
        \/ descubrir(p)
        \/ comprobar(p)
        \/ mover(p)
        \/ devolver(p)

SpecConcurrente == InitConcurrente /\ [][NextConcurrente]_vars

----------------------------------------------------------------------------
(* scripts/orquestar_pipeline.py: the stages are planned from the flags and *)
(* their commands run one after another                                     *)

\* the store_true options of the parser and the attribute each one sets
dest ==
    ( "--dry-run" :> "dry_run" ) @@
    ( "--explorar" :> "explorar" ) @@
    ( "--descargar" :> "descargar" ) @@
    ( "--reorganizar" :> "reorganizar" ) @@
    ( "--limpiar-fx" :> "limpiar_fx" ) @@
    ( "--qa" :> "qa" ) @@
    ( "--detectar-faltantes" :> "detectar_faltantes" ) @@
    ( "--descargar-faltantes" :> "descargar_faltantes" ) @@
    ( "--qa-final" :> "qa_final" )

\* command lines of up to MaxBanderas flags, in any order, repeated or not
ArgvPosibles == UNION {[1..k -> DOMAIN dest] : k \in 0..MaxBanderas}

\* parser.parse_args(): the attributes that are True
parse_args(linea) == {dest[linea[i]] : i \in 1..Len(linea)}

\* ejecutar_todo = not any([...])
ejecutar_todo(a) ==
    ~(\/ "explorar" \in a
      \/ "descargar" \in a
      \/ "reorganizar" \in a
      \/ "limpiar_fx" \in a
      \/ "qa" \in a
      \/ "detectar_faltantes" \in a
      \/ "descargar_faltantes" \in a
      \/ "qa_final" \in a)

\* [sys.executable, str(raiz / script), ...]
Comando(script, resto) == <<"python", script>> \o resto

\* if ejecutar_todo or args.<etapa>: pasos.append(...)
si(a, etapa, comando) ==
    IF ejecutar_todo(a) \/ etapa \in a THEN <<comando>> ELSE <<>>

\* a plan that keeps the first two stages in the opposite order
pasos_descarga_primero(a) ==
    si(a, "descargar", Comando("descargar_datos.py",
           <<"--source_id", "MIROC6", "--directorio_salida", "datos">>))
    \o si(a, "explorar", Comando("explorar_esgf.py", <<>>))
    \o si(a, "reorganizar", Comando("reorganizar_datos.py", <<>>))
    \o si(a, "limpiar_fx", Comando("eliminar_carpetas_fx.py", <<>>))
    \o si(a, "qa", Comando("primer_vistazo.py", <<>>))
    \o si(a, "detectar_faltantes", Comando("anios_faltantes_modelo.py",
           <<"--directorio", "datos">>))
    \o si(a, "descargar_faltantes", Comando("descargar_faltantes.py",
           <<"--csv-faltantes", "anios_faltantes_modelo_ensamble.csv">>))
    \o si(a, "qa_final", Comando("primer_vistazo.py", <<>>))

\* pasos, as main builds it; --source-id keeps its default
pasos_de(a) ==
    si(a, "explorar", Comando("explorar_esgf.py", <<>>))
    \o si(a, "descargar", Comando("descargar_datos.py",
           <<"--source_id", "MIROC6", "--directorio_salida", "datos">>))
    \o si(a, "reorganizar", Comando("reorganizar_datos.py", <<>>))
    \o si(a, "limpiar_fx", Comando("eliminar_carpetas_fx.py", <<>>))
    \o si(a, "qa", Comando("primer_vistazo.py", <<>>))
    \o si(a, "detectar_faltantes", Comando("anios_faltantes_modelo.py",
           <<"--directorio", "datos">>))
    \o si(a, "descargar_faltantes", Comando("descargar_faltantes.py",
           <<"--csv-faltantes", "anios_faltantes_modelo_ensamble.csv">>))
    \o si(a, "qa_final", Comando("primer_vistazo.py", <<>>))

\* resultado.returncode: 0, an exit status of the script, or minus the number
\* of the signal that ended it
CodigosDeRetorno == {0, 1, 2, -9}

\* a loop that goes on to the next command whatever the code
sigue_siempre(codigo) == "bucle"

\* if codigo != 0: raise SystemExit(codigo)
tras_codigo(codigo) == IF codigo # 0 THEN "SystemExit" ELSE "bucle"

\* a dry run that is not honoured
dry_run_ignorado(a) == FALSE

\* args.dry_run
dry_run(a) == "dry_run" \in a

InitOrquestador ==
    /\ InitReubicar
    /\ DOMAIN cache = {}
    /\ DOMAIN salida = {}
    /\ variante = "reorganizar_datos"
    /\ SinEjecutar
    /\ SinFaltantes
    /\ SinCsv
    /\ SinTareas
    /\ SinReintento
    /\ ConfiguracionDeMain
    /\ SinConcurrencia
    /\ argv \in ArgvPosibles
    /\ args = {}
    /\ pasos = <<>>
    /\ pcO = "inicio"
    /\ impresos = <<>>
    /\ ejecutados = <<>>
    /\ codigo_salida = <<>>
    /\ completada = FALSE

\* main up to the loop: the arguments are parsed and the commands planned
main_planificar ==
    /\ pcO = "inicio"
    /\ args' = parse_args(argv)
    /\ pasos' = pasos_de(args')
    /\ pcO' = "bucle"
    /\ UNCHANGED <<argv, impresos, ejecutados, codigo_salida, completada>>
    /\ UNCHANGED <<varsReubicar, varsEjecutar, varsFaltantes, varsCsv, varsTareas,
                   varsReintento, varsConfiguracion, varsConcurrente>>

\* one turn of the loop: ejecutar_comando prints the command and, unless
\* dry_run, runs it and waits; a code other than 0 ends main with that code;
\* subprocess.run may raise, and main ends with the traceback and status 1
ejecutar_comando ==
    /\ pcO = "bucle"
    /\ Len(impresos) < Len(pasos)
    /\ LET paso == pasos[Len(impresos) + 1]
       IN  /\ impresos' = Append(impresos, paso)
           /\ IF dry_run(args)
              THEN /\ pcO' = tras_codigo(0)
                   /\ UNCHANGED <<ejecutados, codigo_salida>>
              ELSE \/ \E codigo \in CodigosDeRetorno :
                        /\ ejecutados' =
                               Append(ejecutados, [comando |-> paso, codigo |-> Algun(codigo)])
                        /\ pcO' = tras_codigo(codigo)
                        /\ codigo_salida' =
                               IF pcO' = "SystemExit" THEN Algun(codigo) ELSE codigo_salida
                   \/ /\ ejecutados' =
                             Append(ejecutados, [comando |-> paso, codigo |-> Ninguno])
                      /\ pcO' = "excepcion"
                      /\ codigo_salida' = Algun(1)
    /\ UNCHANGED <<argv, args, pasos, completada>>
    /\ UNCHANGED <<varsReubicar, varsEjecutar, varsFaltantes, varsCsv, varsTareas,
                   varsReintento, varsConfiguracion, varsConcurrente>>

\* after the loop: print("[PIPELINE] Ejecucion completada."); main returns
main_completar ==
    /\ pcO = "bucle"
    /\ Len(impresos) = Len(pasos)
    /\ completada' = TRUE
    /\ codigo_salida' = Algun(0)
    /\ pcO' = "fin"
    /\ UNCHANGED <<argv, args, pasos, impresos, ejecutados>>
    /\ UNCHANGED <<varsReubicar, varsEjecutar, varsFaltantes, varsCsv, varsTareas,
                   varsReintento, varsConfiguracion, varsConcurrente>>

NextOrquestador ==
    \/ main_planificar
    \/ ejecutar_comando
    \/ main_completar

SpecOrquestador == InitOrquestador /\ [][NextOrquestador]_vars

\* main is one sequential program: it takes its next step whenever it has one
SpecOrquestadorJusto == SpecOrquestador /\ WF_vars(NextOrquestador)

----------------------------------------------------------------------------
(* What the properties speak about, stated on the text of names and paths   *)
(* and on the two trees, without the operators of the passes above          *)

Min(S) == CHOOSE x \in S : \A y \in S : x <= y
Max(S) == CHOOSE x \in S : \A y \in S : x >= y

\* positions of the underscores of a name
Guiones(nombre) == {i \in 1..Len(nombre) : nombre[i] = "_"}

NumCampos(nombre) == Cardinality(Guiones(nombre)) + 1

\* position of the k-th underscore; 0 before the first field, Len + 1 after the last
PosGuion(nombre, k) ==
    IF k = 0 THEN 0
    ELSE IF k > Cardinality(Guiones(nombre)) THEN Len(nombre) + 1
    ELSE CHOOSE i \in Guiones(nombre) :
             Cardinality({j \in Guiones(nombre) : j <= i}) = k

\* the n-th underscore-delimited field of a name, 1 <= n <= NumCampos(nombre)
Campo(nombre, n) ==
    SubSeq(nombre, PosGuion(nombre, n - 1) + 1, PosGuion(nombre, n) - 1)

\* the whole text has the shape s, four digits, "-", "r", at least one more character
EsMiembro(texto) ==
    /\ Len(texto) >= 8
    /\ SubSeq(texto, 1, 1) = <<"s">>
    /\ \A i \in 2..5 : texto[i] \in Digitos
    /\ SubSeq(texto, 6, 7) = <<"-", "r">>

\* indices of the components of a path that have that shape
Coinciden(archivo) == {i \in 1..Len(archivo) : EsMiembro(archivo[i])}

\* destination_root/<model>/<ensemble>/s<year>/<file name>, the member taken from
\* the matching component closest to the file
DestinoSegunRuta(archivo) ==
    IF NumCampos(Nombre(archivo)) < 3 \/ Coinciden(archivo) = {} THEN Ninguno
    ELSE LET m == archivo[Max(Coinciden(archivo))]
         IN  Algun(<<Campo(Nombre(archivo), 3), SubSeq(m, 7, Len(m)),
                     SubSeq(m, 1, 5), Nombre(archivo)>>)

\* the same, for each file a cache may hold
TablaDestinoCanonico == [archivo \in DOMAIN Catalogo |-> DestinoSegunRuta(archivo)]
DestinoCanonico(archivo) == TablaDestinoCanonico[archivo]

\* the member_id field (the fifth) of the name has the shape of a member
MiembroEnNombre(archivo) ==
    /\ NumCampos(Nombre(archivo)) >= 5
    /\ EsMiembro(Campo(Nombre(archivo), 5))

\* the destination when the member_id field of the name is preferred to the path
DestinoNombrePrimero(archivo) ==
    IF NumCampos(Nombre(archivo)) < 3 THEN Ninguno
    ELSE IF MiembroEnNombre(archivo)
    THEN LET m == Campo(Nombre(archivo), 5)
         IN  Algun(<<Campo(Nombre(archivo), 3), SubSeq(m, 7, Len(m)),
                     SubSeq(m, 1, 5), Nombre(archivo)>>)
    ELSE DestinoCanonico(archivo)

Descubiertos == DOMAIN cache0
Manejados == Descubiertos \ pendientes

\* the file is where the pass found it, with the content it had
Intacto(archivo) ==
    /\ archivo \in DOMAIN cache
    /\ cache[archivo] = cache0[archivo]

\* the file left the cache and its content is at path d and nowhere else in the tree
LlegoA(archivo, d) ==
    /\ archivo \notin DOMAIN cache
    /\ d \in DOMAIN salida
    /\ salida[d] = cache0[archivo]
    /\ \A e \in DOMAIN salida : salida[e] = cache0[archivo] => e = d

Marca(archivo) == IF archivo \in DOMAIN bitacora THEN bitacora[archivo] ELSE "nada"

----------------------------------------------------------------------------
(* C1: in a pass of any of the three relocation functions, a file whose     *)
(* destination already holds a file when it is handled is not moved: the    *)
(* destination tree and the cache do not change, the moved counter does not *)
(* change and the file is recorded as skipped, counted once.                *)
C1_NoSobrescribe ==
    [][\A archivo \in pendientes :
          ( /\ pc = "pasada"
            /\ pendientes' = pendientes \ {archivo}
            /\ DestinoCanonico(archivo) # Ninguno
            /\ DestinoCanonico(archivo)[1] \in DOMAIN salida )
          => ( /\ salida' = salida
               /\ cache' = cache
               /\ archivo \in DOMAIN bitacora'
               /\ bitacora'[archivo] = "omitido"
               /\ movidos' = movidos
               /\ omitidos' + errores' = omitidos + errores + 1 )]_vars

\* a skipped file sits in the cache while another content holds its destination
C1_Testigo ==
    \E archivo \in Manejados :
        /\ Marca(archivo) = "omitido"
        /\ Intacto(archivo)
        /\ DestinoCanonico(archivo) # Ninguno
        /\ DestinoCanonico(archivo)[1] \in DOMAIN salida
        /\ salida[DestinoCanonico(archivo)[1]] # cache[archivo]
        /\ variante = "reorganizar_datos"

----------------------------------------------------------------------------
(* C3 *)

\* (a) at its canonical destination and gone from its source path
EstadoA(archivo) ==
    /\ DestinoCanonico(archivo) # Ninguno
    /\ LlegoA(archivo, DestinoCanonico(archivo)[1])

\* (b) untouched at its source path, its destination was occupied
EstadoB(archivo) ==
    /\ Intacto(archivo)
    /\ Marca(archivo) = "omitido"
    /\ DestinoCanonico(archivo) # Ninguno
    /\ DestinoCanonico(archivo)[1] \in DOMAIN salida
    /\ salida[DestinoCanonico(archivo)[1]] # cache[archivo]

\* (c) untouched at its source path, no model or no member identity
EstadoC(archivo) ==
    /\ Intacto(archivo)
    /\ Marca(archivo) \in {"sin_modelo", "sin_miembro"}
    /\ DestinoCanonico(archivo) = Ninguno

\* (d) untouched at its source path, creating the directory or moving raised
EstadoD(archivo) ==
    /\ Intacto(archivo)
    /\ Marca(archivo) \in {"error_mkdir", "error_move"}
    /\ DestinoCanonico(archivo) # Ninguno

Cuantos(archivo, estados) == Cardinality({e \in estados : e[2]})

(* C3 as stated: after a completed pass every discovered file is in exactly  *)
(* one of the end states (a), (b), (c).                                     *)
C3_TresEstados ==
    pc = "completa" =>
        \A archivo \in Descubiertos :
            Cuantos(archivo, {<<"a", EstadoA(archivo)>>, <<"b", EstadoB(archivo)>>,
                              <<"c", EstadoC(archivo)>>}) = 1

(* C3 amended: after a completed pass every discovered file is in exactly    *)
(* one of four end states: (a), (b), (c), or (d) untouched at its source     *)
(* path because creating the destination directory or the move raised.      *)
C3_CuatroEstados ==
    pc = "completa" =>
        \A archivo \in Descubiertos :
            Cuantos(archivo, {<<"a", EstadoA(archivo)>>, <<"b", EstadoB(archivo)>>,
                              <<"c", EstadoC(archivo)>>, <<"d", EstadoD(archivo)>>}) = 1

\* a completed pass that left files in the states (a), (b) and (d)
C3_Testigo ==
    /\ pc = "completa"
    /\ \E archivo \in Descubiertos : EstadoA(archivo)
    /\ \E archivo \in Descubiertos : EstadoB(archivo)
    /\ \E archivo \in Descubiertos : EstadoD(archivo)

----------------------------------------------------------------------------
(* C4 *)

\* the destination tree after a file is handled with nothing raising
TrasUno(archivo, arbol, c0) ==
    IF DestinoCanonico(archivo) = Ninguno
       \/ DestinoCanonico(archivo)[1] \in DOMAIN arbol
    THEN arbol
    ELSE (DestinoCanonico(archivo)[1] :> c0[archivo]) @@ arbol

\* the destination trees with which an uninterrupted pass over the files
\* `pend`, nothing raising, may end, whatever the order of discovery
RECURSIVE Finales(_, _, _)
Finales(pend, arbol, c0) ==
    IF pend = {} THEN {arbol}
    ELSE UNION {Finales(pend \ {archivo}, TrasUno(archivo, arbol, c0), c0) :
                    archivo \in pend}

C4_TestigoInterrumpida ==
    /\ pc = "completa"
    /\ previa # Ninguno
    /\ ~previa[1].completa
    /\ ~previa[1].fallo
    /\ ~fallo_pasada
    /\ previa[1].movidos > 0
    /\ movidos > 0

----------------------------------------------------------------------------
(* C5: every file that left the cache in a pass is at exactly               *)
(* <model>/<ensemble>/s<year>/<file name> under the destination root, the   *)
(* model being the third underscore-delimited field of the name and         *)
(* (s<year>, ensemble) those of the matching path component closest to the  *)
(* file; the file name is unchanged.                                        *)
C5_DestinoExacto ==
    \A archivo \in Descubiertos \ DOMAIN cache :
        /\ DestinoCanonico(archivo) # Ninguno
        /\ LlegoA(archivo, DestinoCanonico(archivo)[1])
        /\ DestinoCanonico(archivo)[1][4] = Nombre(archivo)

\* the file below s1961-r1/s1962-r1 was moved to M6/r1/s1962
C5_Testigo ==
    /\ <<Ds1961r1, Ds1962r1, N62>> \in Descubiertos \ DOMAIN cache
    /\ <<CM6, Cr1, Cs1962, N62>> \in DOMAIN salida
    /\ salida[<<CM6, Cr1, Cs1962, N62>>] = Catalogo[<<Ds1961r1, Ds1962r1, N62>>]

----------------------------------------------------------------------------
----------------------------------------------------------------------------
(* C2: when a run of ejecutar has ended, every file the relocation found in *)
(* the cache is either still at its source path or its content is in the    *)
(* destination tree: no file is deleted that was not moved first.           *)
C2_SoloBorraMovidos ==
    pcE = "fin" =>
        \A archivo \in Descubiertos :
            \/ archivo \in DOMAIN cache
            \/ \E d \in DOMAIN salida : salida[d] = cache0[archivo]

----------------------------------------------------------------------------
(* C10 *)

\* the run has passed the point where the failed keys are recorded
Registrado == pcE \in {"registrado", "reorganizando", "fin"}

\* the rows of the CSV file, none when there is no file
FilasDe(archivo_csv) == IF archivo_csv = Ninguno THEN <<>> ELSE archivo_csv[1]

\* the rows this run appended, the header of a new file left out
FilasDeLaCorrida ==
    LET antes == FilasDe(csv0)
        ahora == FilasDe(csv_fallos)
        desde == IF csv0 = Ninguno THEN 2 ELSE Len(antes) + 1
    IN  SubSeq(ahora, desde, Len(ahora))

\* the rows are one per key of the set, no key twice
UnaFilaPorClave(lineas, conjunto) ==
    /\ Len(lineas) = Cardinality(conjunto)
    /\ \A k \in conjunto : \E i \in 1..Len(lineas) : lineas[i] = Fila(k)

\* the failed set is (keys of the search) minus (keys materialized)
EsDiferencia ==
    \A k \in ClavesPosibles \cup claves_fallidas :
        k \in claves_fallidas <=> (k \in claves_catalogo /\ k \notin resultado_descarga)

(* C10 as stated: the failed keys are the keys of the search minus the keys *)
(* materialized; the CSV is written in the run if and only if that set is   *)
(* not empty, with exactly one row per failed key.                          *)
C10_Original ==
    Registrado =>
        /\ EsDiferencia
        /\ csv_fallos # csv0 <=> claves_fallidas # {}
        /\ csv_fallos # csv0 => UnaFilaPorClave(FilasDeLaCorrida, claves_fallidas)

(* C10 amended: the failed keys are the keys of the search minus the keys   *)
(* materialized; the CSV is written in the run only if that set is not      *)
(* empty; when it is not empty the file gains exactly one row per failed    *)
(* key, after the rows it had, unless the write raises OSError, which is    *)
(* logged and swallowed and leaves the run without its rows.                *)
C10_FallosYCsv ==
    Registrado =>
        /\ EsDiferencia
        /\ csv_fallos # csv0 => claves_fallidas # {}
        /\ csv_error => claves_fallidas # {}
        /\ (claves_fallidas # {} /\ ~csv_error) =>
               /\ csv_fallos # Ninguno
               /\ SubSeq(FilasDe(csv_fallos), 1, Len(FilasDe(csv0))) = FilasDe(csv0)
               /\ UnaFilaPorClave(FilasDeLaCorrida, claves_fallidas)

\* the search gave two keys, one was materialized, the CSV has a row for the other
C10_Testigo ==
    /\ Registrado
    /\ claves_catalogo = {"k1", "k2"}
    /\ resultado_descarga = {"k2"}
    /\ claves_fallidas = {"k1"}
    /\ csv0 = Ninguno
    /\ csv_fallos = Algun(<<Encabezado, Fila("k1")>>)

----------------------------------------------------------------------------
(* C7, C8, C9: what calcular_faltantes returns, read from its arguments and *)
(* from the returned rows                                                   *)

\* calcular_faltantes was called, directly or by main, and has ended
Llamado == pcF \in {"devuelto", "ValueError", "main_csv", "main_ValueError"}

\* it returned its rows
Devuelto == pcF \in {"devuelto", "main_csv"}

\* it raised ValueError
Fallado == pcF \in {"ValueError", "main_ValueError"}

\* the years observed for a (model, ensemble) pair
Observados(modelo, ensamble) ==
    {registros[i].anio :
        i \in {j \in 1..Len(registros) :
                  registros[j].modelo = modelo /\ registros[j].ensamble = ensamble}}

Cifra == ( "0" :> 0 ) @@ ( "1" :> 1 ) @@ ( "2" :> 2 ) @@ ( "3" :> 3 ) @@ ( "4" :> 4 ) @@
         ( "5" :> 5 ) @@ ( "6" :> 6 ) @@ ( "7" :> 7 ) @@ ( "8" :> 8 ) @@ ( "9" :> 9 )

RECURSIVE Entero(_)
Entero(texto) ==
    IF texto = <<>> THEN 0
    ELSE 10 * Entero(SubSeq(texto, 1, Len(texto) - 1)) + Cifra[texto[Len(texto)]]

\* the years a returned row lists as missing
FaltantesDe(fila) ==
    IF fila.lista_anios_faltantes = <<>> THEN {}
    ELSE LET partes == split(fila.lista_anios_faltantes, ",")
         IN  {Entero(partes[i]) : i \in 1..Len(partes)}

\* the expected inclusive range of a returned row
EsperadosDe(fila) == fila.anio_inicio_esperado .. fila.anio_fin_esperado

\* the bounds of a returned row are the given ones, or else the least and the
\* greatest observed year
CotasDe(fila) ==
    LET obs == Observados(fila.modelo, fila.ensamble)
    IN  /\ fila.anio_inicio_esperado = IF inicio # Ninguno THEN inicio[1] ELSE Min(obs)
        /\ fila.anio_fin_esperado = IF fin # Ninguno THEN fin[1] ELSE Max(obs)

(* C7 as stated: whenever calcular_faltantes returns, each returned group   *)
(* has observed U missing = expected inclusive range and observed and       *)
(* missing disjoint, whatever bounds were given.                            *)
C7_Original ==
    Devuelto =>
        \A i \in 1..Len(filas) :
            LET obs == Observados(filas[i].modelo, filas[i].ensamble)
                mis == FaltantesDe(filas[i])
            IN  /\ CotasDe(filas[i])
                /\ obs \cup mis = EsperadosDe(filas[i])
                /\ obs \cap mis = {}

(* C7 amended: whenever calcular_faltantes returns, each returned group has *)
(* missing = expected range minus observed, so observed and missing are     *)
(* disjoint and the observed years inside the range together with the       *)
(* missing ones are the range; observed U missing = expected range holds    *)
(* when every observed year lies inside the range, as it does when both     *)
(* bounds are inferred.                                                     *)
C7_FaltantesEsDiferencia ==
    Devuelto =>
        \A i \in 1..Len(filas) :
            LET obs == Observados(filas[i].modelo, filas[i].ensamble)
                mis == FaltantesDe(filas[i])
                esp == EsperadosDe(filas[i])
            IN  /\ CotasDe(filas[i])
                /\ mis = esp \ obs
                /\ filas[i].anios_faltantes = Cardinality(mis)
                /\ obs \cap mis = {}
                /\ (obs \cap esp) \cup mis = esp
                /\ obs \subseteq esp => obs \cup mis = esp
                /\ (inicio = Ninguno /\ fin = Ninguno) => obs \subseteq esp

\* 1960 and 1962 observed for a group, bounds inferred: 1961 is missing
C7_Testigo ==
    /\ Devuelto
    /\ inicio = Ninguno
    /\ fin = Ninguno
    /\ \E i \in 1..Len(filas) :
           /\ Observados(filas[i].modelo, filas[i].ensamble) = {1960, 1962}
           /\ FaltantesDe(filas[i]) = {1961}

(* C8: for every sequence of registros, the empty one included, a call of   *)
(* calcular_faltantes with both bounds given and fin < inicio raises the    *)
(* invalid-range error and returns nothing.                                 *)
C8_InvertidoFalla ==
    (/\ pcF \in {"devuelto", "ValueError"}
     /\ inicio # Ninguno
     /\ fin # Ninguno
     /\ fin[1] < inicio[1]) => pcF = "ValueError"

(* C9: with both bounds inferred the computation raises nothing and a group *)
(* with exactly one distinct observed year gets the expected range {that    *)
(* year} and an empty missing list, duplicates of the year included.        *)
C9_UnSoloAnio ==
    (Llamado /\ inicio = Ninguno /\ fin = Ninguno) =>
        /\ Devuelto
        /\ \A r \in {registros[j] : j \in 1..Len(registros)} :
               Observados(r.modelo, r.ensamble) = {r.anio} =>
                   \E i \in 1..Len(filas) :
                       /\ filas[i].modelo = r.modelo
                       /\ filas[i].ensamble = r.ensamble
                       /\ EsperadosDe(filas[i]) = {r.anio}
                       /\ filas[i].anios_esperados = 1
                       /\ filas[i].anios_faltantes = 0
                       /\ filas[i].lista_anios_faltantes = <<>>

\* one group observed twice in the same year, another with two years
C9_Testigo ==
    /\ Devuelto
    /\ inicio = Ninguno
    /\ fin = Ninguno
    /\ Len(registros) = 3
    /\ registros[1] = registros[2]
    /\ registros[3].modelo # registros[1].modelo
    /\ Len(filas) = 2
    /\ \E i \in 1..2 : filas[i].modelo = registros[1].modelo /\ filas[i].anios_faltantes = 0

----------------------------------------------------------------------------
(* C11: the failed-download CSV across runs                                 *)

\* the rows that the runs so far put in the file, in run order
RECURSIVE FilasDeCorridas(_)
FilasDeCorridas(h) ==
    IF h = <<>> THEN <<>>
    ELSE FilasDeCorridas(SubSeq(h, 1, Len(h) - 1)) \o h[Len(h)].escritas

EsPrefijo(a, b) == Len(a) <= Len(b) /\ SubSeq(b, 1, Len(a)) = a

\* no write of a run so far was cut
SinCortes == \A i \in 1..Len(historial) : ~historial[i].error

(* C11 as stated: after any sequence of runs the file, once it exists, holds *)
(* the header as its first line, exactly once, followed by the rows of all  *)
(* runs in run order.                                                       *)
C11_Original ==
    (\E i \in 1..Len(historial) : ~historial[i].error /\ historial[i].escritas # <<>>) =>
        FilasDe(csv_fallos) = <<Encabezado>> \o FilasDeCorridas(historial)

(* C11 amended: a run only appends: the lines the file had stay as they     *)
(* were, a header is added only by the run that creates the file and only   *)
(* as the first line, and the rows of the runs follow each other in run     *)
(* order; the file begins with the header when no write was cut by an       *)
(* OSError, while a run that finds a file left without header by a cut      *)
(* write appends its rows and no header.                                    *)
C11_SoloAgrega ==
    LET l == FilasDe(csv_fallos)
        l0 == FilasDe(csv0)
    IN  /\ EsPrefijo(l0, l)
        /\ csv0 # Ninguno => csv_fallos # Ninguno
        /\ \A i \in 1..Len(l) : l[i] = Encabezado => i = 1
        /\ \A i \in (Len(l0) + 1)..Len(l) : l[i] = Encabezado => csv0 = Ninguno
        /\ l \in {FilasDeCorridas(historial), <<Encabezado>> \o FilasDeCorridas(historial)}
        /\ (SinCortes /\ csv_fallos # Ninguno) =>
               l = <<Encabezado>> \o FilasDeCorridas(historial)

\* three runs, the second without failed keys: header, row of the first, rows of the third
C11_Testigo ==
    /\ Len(historial) = 3
    /\ SinCortes
    /\ historial[1].escritas = <<Fila("k1")>>
    /\ historial[2].escritas = <<>>
    /\ historial[3].escritas = <<Fila("k2"), Fila("k1")>>
    /\ FilasDe(csv_fallos) = <<Encabezado, Fila("k1"), Fila("k2"), Fila("k1")>>

----------------------------------------------------------------------------
(* C12: the tasks read back from the missing-years report                   *)

\* the tasks of one record: its missing list, year by year
TareasDe(l) ==
    [i \in 1..Len(l.faltantes) |->
        [modelo |-> l.modelo, ensamble |-> l.ensamble, anio |-> l.faltantes[i]]]

\* the flattening of the records' missing lists, in record order
RECURSIVE Aplanar(_)
Aplanar(ls) ==
    IF ls = <<>> THEN <<>>
    ELSE TareasDe(Head(ls)) \o Aplanar(Tail(ls))

\* the position of the record of a (model, ensemble) pair
PosicionDe(modelo, ensamble) ==
    CHOOSE i \in 1..Len(locales) :
        locales[i].modelo = modelo /\ locales[i].ensamble = ensamble

TareasLeidas == pcF = "tareas_leidas"

(* C12: the tasks read from the report that main wrote from the records of *)
(* calcular_faltantes are the flattening of the records' missing lists: one *)
(* task per (model, ensemble, missing year), in record order and, within a  *)
(* record, in ascending year order, without duplicates, and none for a year *)
(* that was observed; a model filter only leaves tasks out.                 *)
C12_TareasSonAplanado ==
    TareasLeidas =>
        /\ filtro_modelo = Ninguno => tareas = Aplanar(locales)
        /\ \A i \in 1..Len(tareas) :
               /\ \E j \in 1..Len(Aplanar(locales)) : Aplanar(locales)[j] = tareas[i]
               /\ tareas[i].anio \notin Observados(tareas[i].modelo, tareas[i].ensamble)
        /\ \A i, j \in 1..Len(tareas) :
               i < j =>
                   /\ tareas[i] # tareas[j]
                   /\ PosicionDe(tareas[i].modelo, tareas[i].ensamble)
                          <= PosicionDe(tareas[j].modelo, tareas[j].ensamble)
                   /\ (tareas[i].modelo = tareas[j].modelo
                          /\ tareas[i].ensamble = tareas[j].ensamble)
                         => tareas[i].anio < tareas[j].anio

\* two records, one with two missing years and one with one: three tasks
C12_Testigo ==
    /\ TareasLeidas
    /\ filtro_modelo = Ninguno
    /\ Len(locales) = 2
    /\ Len(locales[1].faltantes) = 2
    /\ Len(locales[2].faltantes) = 1
    /\ Len(tareas) = 3
    /\ tareas[1].anio < tareas[2].anio
    /\ tareas[3].modelo # tareas[1].modelo

----------------------------------------------------------------------------
(* C13: when a task counts as already satisfied                             *)

\* the task the loop of the retry driver is about to take
TareaEnTurno == tareas[Len(resultados) + 1]

\* the directory <model>/<ensemble>/s<year> of the task exists in the
\* destination tree and a file named *.nc lies directly in it
TieneNcDirecto(t) ==
    \E d \in dirs :
        /\ Len(d) = 3
        /\ d[1] = t.modelo
        /\ d[2] = t.ensamble
        /\ Head(d[3]) = "s"
        /\ Entero(Tail(d[3])) = t.anio
        /\ \E ruta \in DOMAIN salida :
               /\ Len(ruta) = 4
               /\ SubSeq(ruta, 1, 3) = d
               /\ Len(ruta[4]) >= 3
               /\ ruta[4][Len(ruta[4]) - 2] = "."
               /\ ruta[4][Len(ruta[4]) - 1] = "n"
               /\ ruta[4][Len(ruta[4])] = "c"

\* the turn of the loop gave the task the row ya_existe and asked nothing of
\* the collaborator
DadaPorExistente ==
    /\ Len(resultados') = Len(resultados) + 1
    /\ resultados'[Len(resultados')].estado = "ya_existe"
    /\ llamadas' = llamadas

(* C13: the driver takes a task as already satisfied exactly when the       *)
(* directory <model>/<ensemble>/s<year> exists under the destination root   *)
(* and directly holds at least one .nc file; a directory that is empty,     *)
(* holds only other files, or holds a .nc file further down, does not       *)
(* satisfy the task.                                                        *)
C13_YaExisteSiiNc ==
    [][(pcR = "bucle" /\ Len(resultados) < Len(tareas))
          => (DadaPorExistente <=> TieneNcDirecto(TareaEnTurno))]_vars

\* s1960 holds only a file that is no .nc: the task of 1960 is fetched; the
\* file that lands in s1961 satisfies the task of 1961
C13_Testigo ==
    /\ (DirS1960 \o <<NTxt>>) \in DOMAIN salida
    /\ Len(resultados) = 2
    /\ tareas[1].anio = 1960
    /\ resultados[1].estado = "descargado"
    /\ resultados[2].estado = "ya_existe"

----------------------------------------------------------------------------
(* C14: the outcome of a fetch attempt                                      *)

\* the (estado, detalle) that the i-th call of descargar_tarea returned: in
\* the row of its task once recorded, in the locals of main before
EstadoDe(i) ==
    IF llamadas[i].tarea <= Len(resultados)
    THEN resultados[llamadas[i].tarea].estado
    ELSE estado
TextoDe(i) ==
    IF llamadas[i].tarea <= Len(resultados)
    THEN resultados[llamadas[i].tarea].detalle.detalle.texto
    ELSE detalle.texto

BusquedaFallo(ll) == ll.busqueda = Ninguno
SinClaves(ll) == ll.busqueda = Algun(0)
DescargaFallo(ll) == ll.llamada /\ ll.descarga = Ninguno
SinDatasets(ll) == ll.llamada /\ ll.descarga = Algun(0)

(* C14: every call of descargar_tarea returns exactly one of four outcomes: *)
(* sin_resultados when the search leaves zero keys, and then no fetch is    *)
(* issued; sin_descarga when there are keys and the fetch returns zero      *)
(* datasets; error, with the exception's type and message, when search or   *)
(* fetch raises; descargado otherwise.  The call always returns, so the     *)
(* driver goes on to the relocation and to the row of the task.             *)
C14_UnResultadoPorIntento ==
    /\ \A i \in 1..Len(llamadas) :
           LET ll == llamadas[i]
           IN  /\ EstadoDe(i) \in {"sin_resultados", "sin_descarga", "error", "descargado"}
               /\ EstadoDe(i) = "sin_resultados" <=> SinClaves(ll)
               /\ SinClaves(ll) \/ BusquedaFallo(ll) => ~ll.llamada
               /\ EstadoDe(i) = "sin_descarga" <=> SinDatasets(ll)
               /\ EstadoDe(i) = "error" <=> (BusquedaFallo(ll) \/ DescargaFallo(ll))
               /\ EstadoDe(i) = "error" =>
                      TextoDe(i) = <<Excepcion.tipo, ": ", Excepcion.mensaje>>
               /\ EstadoDe(i) = "descargado" <=>
                      (ll.llamada /\ ll.descarga # Ninguno /\ ll.descarga[1] > 0)
               /\ i < Len(llamadas) => llamadas[i].tarea < llamadas[i + 1].tarea
    /\ llamadas # <<>> =>
           /\ pcR \in {"reubicando", "bucle", "fin"}
           /\ llamadas[Len(llamadas)].tarea <= Len(resultados) \/ pcR = "reubicando"

\* the search of the first task raises, and the second task is still tried:
\* its fetch returns no dataset
C14_Testigo ==
    /\ Len(llamadas) = 2
    /\ BusquedaFallo(llamadas[1])
    /\ SinDatasets(llamadas[2])
    /\ Len(resultados) = 2
    /\ resultados[1].estado = "error"
    /\ resultados[2].estado = "sin_descarga"

----------------------------------------------------------------------------
(* C15: relocation after every fetch attempt                                *)

\* the step records the row of a task that was handed to descargar_tarea
FilaDeIntento ==
    /\ Len(resultados') = Len(resultados) + 1
    /\ resultados'[Len(resultados')].estado # "ya_existe"

\* the step takes a new task from the list
TareaNueva == llamadas' # llamadas \/ DadaPorExistente

\* the relocation pass started by the last call of descargar_tarea has gone
\* over every file the cache held when that call returned
PasadaDelIntentoCompleta ==
    /\ llamadas # <<>>
    /\ n_pasada = Len(llamadas)
    /\ llamadas[Len(llamadas)].tarea = Len(resultados) + 1
    /\ pc = "completa"
    /\ pendientes = {}
    /\ DOMAIN bitacora = DOMAIN cache0

(* C15: in the retry driver every call of descargar_tarea, whatever it      *)
(* returns (descargado, sin_descarga, error, and sin_resultados as well),   *)
(* is followed by a relocation pass over all the files of the cache; the    *)
(* row of the task is recorded only once that pass is complete, and the     *)
(* next task is taken only after that row.                                  *)
C15_ReubicaAntesDeFila ==
    [][/\ llamadas' # llamadas =>
              /\ pc' = "pasada"
              /\ pendientes' = DOMAIN cache'
              /\ cache0' = cache'
       /\ FilaDeIntento => PasadaDelIntentoCompleta
       /\ TareaNueva =>
              \/ llamadas = <<>>
              \/ llamadas[Len(llamadas)].tarea <= Len(resultados)]_vars

\* a fetch that raised had left a file in the cache: the pass moved it before
\* the row of the task was recorded, and the second task came after
C15_Testigo ==
    /\ Len(resultados) = 1
    /\ resultados[1].estado = "error"
    /\ resultados[1].detalle.movidos = 1
    /\ Len(llamadas) = 2
    /\ pcR = "reubicando"

----------------------------------------------------------------------------
(* C16: the retry report                                                    *)

EstadosDeTarea == {"ya_existe", "sin_resultados", "sin_descarga", "error", "descargado"}

\* the line is the row of the task: its model, ensemble and year, and one of
\* the five outcomes
EsFilaDe(linea, t) ==
    /\ Len(linea) = 5
    /\ linea[1] = t.modelo
    /\ linea[2] = t.ensamble
    /\ Entero(linea[3]) = t.anio
    /\ linea[4] \in EstadosDeTarea

(* C16: the report the retry driver writes holds, after its header, exactly *)
(* one row per derived task, in the order in which the tasks were derived,  *)
(* whatever the outcomes of the tasks; the rows are gathered in that order, *)
(* one per task taken, and the report is written once, after the last task. *)
C16_UnaFilaPorTarea ==
    /\ Len(resultados) <= Len(tareas)
    /\ \A i \in 1..Len(resultados) :
           /\ resultados[i].modelo = tareas[i].modelo
           /\ resultados[i].ensamble = tareas[i].ensamble
           /\ resultados[i].anio = tareas[i].anio
           /\ resultados[i].estado \in EstadosDeTarea
    /\ reporte_descarga # Ninguno => pcR = "fin"
    /\ pcR = "fin" =>
           /\ reporte_descarga # Ninguno
           /\ Len(reporte_descarga[1]) = Len(tareas) + 1
           /\ reporte_descarga[1][1] = <<"modelo", "ensamble", "anio", "estado", "detalle">>
           /\ \A i \in 1..Len(tareas) : EsFilaDe(reporte_descarga[1][i + 1], tareas[i])

\* two tasks, the first already satisfied and the second failed: two rows, in
\* that order
C16_Testigo ==
    /\ pcR = "fin"
    /\ Len(tareas) = 2
    /\ reporte_descarga[1][2][4] = "ya_existe"
    /\ reporte_descarga[1][3][4] = "error"
    /\ Entero(reporte_descarga[1][2][3]) = 1960
    /\ Entero(reporte_descarga[1][3][3]) = 1961

----------------------------------------------------------------------------
(* C17: a failure on one file does not stop the pass                        *)

\* how the handling of a file can fail: the name has no model field, no
\* ancestor gives the member, mkdir raises, the move raises
MarcasDeFallo == {"sin_modelo", "sin_miembro", "error_mkdir", "error_move"}

\* the files handled by the step
Tratados == DOMAIN bitacora' \ DOMAIN bitacora

\* the step handles a file and fails on it
FalloEnArchivo == \E f \in Tratados : bitacora'[f] \in MarcasDeFallo

(* C17: a step of a relocation pass that fails on its file counts one error *)
(* and leaves the pass running on the files still to come, with the trees   *)
(* and the other counters as they were; and a pass returns its counters     *)
(* only when every file it discovered has been handled, failures included.  *)
C17_FalloNoDetiene ==
    [][/\ (pc = "pasada" /\ FalloEnArchivo) =>
              /\ pc' = "pasada"
              /\ errores' = errores + 1
              /\ movidos' = movidos
              /\ omitidos' = omitidos
              /\ cache' = cache
              /\ salida' = salida
              /\ Cardinality(Tratados) = 1
              /\ pendientes' = pendientes \ Tratados
       /\ (pc = "pasada" /\ pc' = "completa") =>
              /\ DOMAIN bitacora = DOMAIN cache0
              /\ errores >= Cardinality({f \in DOMAIN bitacora : bitacora[f] \in MarcasDeFallo})
              /\ movidos' = movidos /\ omitidos' = omitidos /\ errores' = errores]_vars

\* a pass over three files is complete: the name of one could not be parsed,
\* the move of another raised, and the third was moved
C17_Testigo ==
    /\ pc = "completa"
    /\ Cardinality(DOMAIN cache0) = 3
    /\ \E f, g, h \in DOMAIN bitacora :
           /\ bitacora[f] = "sin_modelo"
           /\ bitacora[g] = "error_move"
           /\ bitacora[h] = "movido"
    /\ errores = 2
    /\ movidos = 1

----------------------------------------------------------------------------
(* C18: invalid configuration                                               *)

\* absent, empty or made of blanks only
SinValor(campo) == campo = Ninguno \/ \A i \in 1..Len(campo[1]) : campo[1][i] = " "

ConfiguracionInvalida == SinValor(source_id) \/ SinValor(variable_id)

\* the header of the CSV given to the retry driver lacks a required column
FaltaColumna ==
    /\ reporte # Ninguno
    /\ LET encabezado == IF reporte[1] = <<>> THEN <<>> ELSE reporte[1][1]
       IN  \E c \in {"modelo", "ensamble", "lista_anios_faltantes"} :
               \A i \in 1..Len(encabezado) : encabezado[i] # c

\* nothing was searched, fetched, relocated or removed by descargar_datos.py
NadaEjecutado ==
    /\ claves_catalogo = {}
    /\ resultado_descarga = {}
    /\ claves_fallidas = {}
    /\ csv_fallos = csv0
    /\ DOMAIN cache = {}
    /\ n_pasada = 0
    /\ pc = "reposo"
    /\ bitacora = <<>>

\* no task was derived, fetched or relocated by the retry driver, and no
\* report written
NadaReintentado ==
    /\ tareas = <<>>
    /\ llamadas = <<>>
    /\ resultados = <<>>
    /\ DOMAIN cache = {}
    /\ n_pasada = 0
    /\ pc = "reposo"
    /\ reporte_descarga = Ninguno

\* construction is over
Construido == pcE \notin {"no", "construccion"}

\* the retry driver is past the reading of the CSV
Leido == pcR \notin {"no", "inicio"}

ConfiguracionRechazada ==
    Construido =>
        /\ ConfiguracionInvalida <=> pcE = "ValueError"
        /\ ConfiguracionInvalida => NadaEjecutado

(* C18 as stated: an invalid configuration and a CSV lacking a required     *)
(* column both abort the run before any side effect.                        *)
C18_Original ==
    /\ ConfiguracionRechazada
    /\ (Leido /\ FaltaColumna) =>
           /\ pcR = "ValueError"
           /\ NadaReintentado
           /\ raices = raices_de(dirs)

(* C18 amended: a configuration whose source_id or variable_id is absent,   *)
(* empty or blank fails at construction, before any search, fetch,          *)
(* relocation or cleanup; a CSV lacking a required column is rejected       *)
(* before any task is derived, fetched or relocated and before any report,  *)
(* but after the driver has created its cache and destination directories.  *)
C18_InvalidaAborta ==
    /\ ConfiguracionRechazada
    /\ (Leido /\ FaltaColumna) =>
           /\ pcR = "ValueError"
           /\ NadaReintentado
           /\ raices = {"cache_dir", "salida_dir"}

\* a source_id of blanks was refused at construction
C18_Testigo ==
    /\ pcE = "ValueError"
    /\ source_id = Algun(<<" ", " ">>)
    /\ variable_id = Algun(<<"p", "r">>)
    /\ NadaEjecutado

----------------------------------------------------------------------------
(* C19: a destination collision in the counters                             *)

\* the files of the pass handled so far with the given outcome
ConMarca(marcas) == {f \in DOMAIN bitacora : bitacora[f] \in marcas}

(* C19: in every relocation pass a file skipped because its destination     *)
(* already exists is counted as skipped and is not added to the error       *)
(* count: the errors are the files that failed, so a pass whose only        *)
(* non-moved files are collisions reports zero errors.                      *)
C19_ColisionNoEsError ==
    pc \in {"pasada", "completa"} =>
        /\ errores = Cardinality(ConMarca(MarcasDeFallo))
        /\ (ConMarca({"omitido"}) # {} /\ ConMarca(MarcasDeFallo) = {}) => errores = 0

----------------------------------------------------------------------------
(* C20: relocation and detection on the identity of a file                  *)

\* the (model, ensemble, year) of the directory a file of the destination
\* tree lies in
IdentidadDeCarpeta(ruta) ==
    [modelo |-> ruta[1], ensamble |-> ruta[2], anio |-> Entero(Tail(ruta[3]))]

\* the files of the destination tree that this pass put there
PuestosPorLaPasada ==
    {ruta \in DOMAIN salida :
        \E archivo \in DOMAIN bitacora :
            /\ bitacora[archivo] = "movido"
            /\ salida[ruta] = cache0[archivo]
            /\ ruta[Len(ruta)] = archivo[Len(archivo)]}

\* the years detection reports missing for a (model, ensemble) pair
ReportadosFaltantes(modelo, ensamble) ==
    LET fs == filas_detectadas(salida)
    IN  UNION {{fs[i].faltantes[j] : j \in 1..Len(fs[i].faltantes)} :
                  i \in {k \in 1..Len(fs) :
                            fs[k].modelo = modelo /\ fs[k].ensamble = ensamble}}

\* the directory of the file and the name of the file carry the same member
RutaYNombreConcuerdan(archivo) ==
    \E i \in 1..(Len(archivo) - 1) :
        /\ archivo[i] = Campo(Nombre(archivo), 5)
        /\ \A j \in (i + 1)..(Len(archivo) - 1) : ~EsMiembro(archivo[j])

(* C20: for every file a relocation pass has moved and whose name matches   *)
(* the seven-field grammar, the (model, ensemble, year) that                *)
(* extraer_registro reads from the name is the (model, ensemble, year) of   *)
(* the directory the file was placed in; and detection over the             *)
(* destination tree never reports as missing a year whose file sits in      *)
(* <model>/<ensemble>/s<year>.                                              *)
C20_IdentidadCoincide ==
    pc \in {"pasada", "completa"} =>
        /\ \A ruta \in PuestosPorLaPasada :
               extraer_registro(ruta) # Ninguno =>
                   extraer_registro(ruta)[1] = IdentidadDeCarpeta(ruta)
        /\ \A ruta \in DOMAIN salida :
               IdentidadDeCarpeta(ruta).anio
                   \notin ReportadosFaltantes(ruta[1], ruta[2])

\* the same, for the files whose directory and name carry the same member
C20_CoincideSiConcuerdan ==
    pc \in {"pasada", "completa"} =>
        \A archivo \in DOMAIN bitacora :
            (bitacora[archivo] = "movido" /\ RutaYNombreConcuerdan(archivo)) =>
                \A ruta \in PuestosPorLaPasada :
                    (salida[ruta] = cache0[archivo] /\ extraer_registro(ruta) # Ninguno) =>
                        extraer_registro(ruta)[1] = IdentidadDeCarpeta(ruta)

----------------------------------------------------------------------------
(* C21: the model taken from a file name is its third underscore-delimited  *)
(* field whenever the name has at least three such fields, whatever the     *)
(* other fields are (empty, not word characters, too few or too many for a  *)
(* CMIP6 name); a name with fewer than three fields gives no model, and the *)
(* relocation pass counts that file as an error and leaves it in place.     *)

\* the directory of a path of the destination tree
Carpeta(ruta) == SubSeq(ruta, 1, Len(ruta) - 1)

C21_ModeloEsTercerCampo ==
    \A archivo \in Manejados :
        LET nombre == Nombre(archivo)
        IN  IF NumCampos(nombre) < 3
            THEN /\ modelo_de[archivo] = Ninguno
                 /\ Marca(archivo) = "sin_modelo"
                 /\ Intacto(archivo)
                 /\ errores >= 1
            ELSE /\ modelo_de[archivo] = Algun(Campo(nombre, 3))
                 /\ Marca(archivo) # "sin_modelo"
                 /\ Marca(archivo) = "movido" =>
                        \E d \in DOMAIN salida :
                            /\ LlegoA(archivo, d)
                            /\ Campo(nombre, 3) # <<>> => Carpeta(d)[1] = Campo(nombre, 3)

\* a pass has handled a name of two fields and a name of three or more
\* fields that is not a CMIP6 name, and has moved the latter
C21_Testigo ==
    /\ pc = "completa"
    /\ \E corto, largo \in Manejados :
           /\ NumCampos(Nombre(corto)) < 3
           /\ Marca(corto) = "sin_modelo"
           /\ NumCampos(Nombre(largo)) >= 3
           /\ NumCampos(Nombre(largo)) # 7
           /\ Marca(largo) = "movido"

----------------------------------------------------------------------------
(* C23: a member identity (initialization year, ensemble) comes only from a *)
(* string that has the shape s, four digits, "-r" and at least one more     *)
(* character from its first character to its last, in that case of letters. *)
(* A relocation pass finds a member only in such a component of the path,   *)
(* and main of faltantes_detectar has a registro only for a file whose name *)
(* carries such a field.                                                    *)

\* the files of the directory main scans
EnDirectorio == DOMAIN cache \cup DOMAIN salida

\* the name has a field that is a member from end to end
TieneCampoMiembro(nombre) ==
    \E k \in 1..NumCampos(SubSeq(nombre, 1, Len(nombre) - 3)) :
        EsMiembro(Campo(SubSeq(nombre, 1, Len(nombre) - 3), k))

\* the path scan of the relocation pass: a member found means a component
\* of that shape
C23_RutaAnclada ==
    \A archivo \in Manejados :
        Marca(archivo) \in {"movido", "omitido", "error_mkdir", "error_move"} =>
            Coinciden(archivo) # {}

\* the detector: no more registros than files with a member field
C23_RegistroAnclado ==
    pcF # "directorio" =>
        Len(registros) <= Cardinality({ruta \in EnDirectorio : TieneCampoMiembro(Nombre(ruta))})

C23_IdentidadSoloDeCoincidenciaCompleta == C23_RutaAnclada /\ C23_RegistroAnclado

----------------------------------------------------------------------------
(* C24: the full parser of file names accepts a name exactly when the name  *)
(* ends in .nc and what precedes .nc splits at the underscores into exactly *)
(* seven fields, none of them empty; main of faltantes_detectar has no      *)
(* registro for a name of six fields or fewer, or of eight or more.         *)

\* the name without its .nc
SinExtension(nombre) == SubSeq(nombre, 1, Len(nombre) - 3)

SieteCamposNoVacios(nombre) ==
    /\ SubSeq(nombre, Len(nombre) - 2, Len(nombre)) = <<".", "n", "c">>
    /\ NumCampos(SinExtension(nombre)) = 7
    /\ \A k \in 1..7 : Campo(SinExtension(nombre), k) # <<>>

\* only names of seven fields give a registro
C24_SoloSieteCampos ==
    pcF # "directorio" =>
        Len(registros) <=
            Cardinality({ruta \in EnDirectorio : SieteCamposNoVacios(Nombre(ruta))})

\* every name of seven fields whose fifth field is a member gives a registro
C24_SieteCamposBastan ==
    pcF # "directorio" =>
        Len(registros) >=
            Cardinality({ruta \in EnDirectorio :
                            /\ SieteCamposNoVacios(Nombre(ruta))
                            /\ EsMiembro(Campo(SinExtension(Nombre(ruta)), 5))})

C24_AceptaSiiSieteCampos == C24_SoloSieteCampos /\ C24_SieteCamposBastan

----------------------------------------------------------------------------
(* C22: the orchestrator plans the stages by flag.  With no stage flag on   *)
(* the command line the plan is the eight stages explore, download,         *)
(* reorganize, clean fx, QA, detect missing, download missing, final QA;    *)
(* with stage flags it is exactly the flagged stages; the planned stages    *)
(* are always in that order, whatever the order of the flags; and with      *)
(* --dry-run every planned command is printed, none is executed, and the    *)
(* run completes with exit status 0.                                        *)

\* the stage flags in the order of the pipeline, and the script of each
Etapas ==
    <<"--explorar", "--descargar", "--reorganizar", "--limpiar-fx", "--qa",
      "--detectar-faltantes", "--descargar-faltantes", "--qa-final">>

GuionDeEtapa ==
    <<"explorar_esgf.py", "descargar_datos.py", "reorganizar_datos.py",
      "eliminar_carpetas_fx.py", "primer_vistazo.py", "anios_faltantes_modelo.py",
      "descargar_faltantes.py", "primer_vistazo.py">>

EnLinea == {argv[i] : i \in 1..Len(argv)}

EtapasPedidas == {k \in 1..Len(Etapas) : Etapas[k] \in EnLinea}

\* the stages to run, by position in the pipeline
EtapasDelPlan == IF EtapasPedidas = {} THEN 1..Len(Etapas) ELSE EtapasPedidas

\* the k-th smallest element of a set of numbers
Enesimo(S, k) == CHOOSE x \in S : Cardinality({y \in S : y <= x}) = k

GuionesDelPlan ==
    [k \in 1..Cardinality(EtapasDelPlan) |-> GuionDeEtapa[Enesimo(EtapasDelPlan, k)]]

Simulacion == "--dry-run" \in EnLinea

Planificado == pcO \notin {"no", "inicio"}

C22_Plan ==
    Planificado =>
        /\ [k \in 1..Len(pasos) |-> pasos[k][2]] = GuionesDelPlan
        /\ EtapasPedidas = {} => Len(pasos) = 8
        /\ Simulacion =>
               /\ ejecutados = <<>>
               /\ pcO \in {"bucle", "fin"}
               /\ impresos = SubSeq(pasos, 1, Len(impresos))
               /\ pcO = "fin" => (impresos = pasos /\ codigo_salida = Algun(0))

C22_PlanPorBanderas ==
    /\ []C22_Plan
    /\ Simulacion => <>(pcO = "fin" /\ codigo_salida = Algun(0))

\* a dry run asked for two stages against the order of the pipeline and
\* has completed
C22_Testigo ==
    /\ pcO = "fin"
    /\ Simulacion
    /\ Cardinality(EtapasPedidas) = 2
    /\ \E i, j \in 1..Len(argv), k, l \in 1..Len(Etapas) :
           i < j /\ l < k /\ argv[i] = Etapas[k] /\ argv[j] = Etapas[l]
    /\ Len(impresos) = 2
    /\ ejecutados = <<>>

----------------------------------------------------------------------------
(* C30: outside a dry run the orchestrator stops at the first stage whose   *)
(* command returns a code other than 0: no later planned stage is started,  *)
(* the orchestrator exits with that code, and the completion message is     *)
(* printed only if every planned stage returned 0.                          *)

\* the positions of the commands that returned a code other than 0
Fallidos ==
    {i \in 1..Len(ejecutados) :
        ejecutados[i].codigo # Ninguno /\ ejecutados[i].codigo # Algun(0)}

C30_Estado ==
    (Planificado /\ ~Simulacion) =>
        /\ [i \in 1..Len(ejecutados) |-> ejecutados[i].comando]
               = SubSeq(pasos, 1, Len(ejecutados))
        /\ \A i \in Fallidos :
               /\ i = Len(ejecutados)
               /\ pcO = "SystemExit"
               /\ codigo_salida = ejecutados[i].codigo
               /\ ~completada
        /\ completada =>
               /\ Len(ejecutados) = Len(pasos)
               /\ \A i \in 1..Len(ejecutados) : ejecutados[i].codigo = Algun(0)

C30_DetieneEnPrimerFallo ==
    /\ []C30_Estado
    /\ [][Fallidos # {} => UNCHANGED <<ejecutados, impresos, completada, codigo_salida>>]_vars

\* the second of three planned stages returned a code other than 0
C30_Testigo ==
    /\ ~Simulacion
    /\ Len(pasos) >= 3
    /\ Len(ejecutados) = 2
    /\ Fallidos = {2}
    /\ pcO = "SystemExit"

----------------------------------------------------------------------------
(* C25: whenever calcular_faltantes returns, its rows are one per distinct  *)
(* (model, ensemble) pair of the registros, in ascending order of (model,   *)
(* ensemble), whatever the order of the registros and however often a pair  *)
(* occurs among them.                                                       *)

\* Unicode code points of the characters of the models and ensembles
PuntoUnicode ==
    ( "0" :> 48 ) @@ ( "1" :> 49 ) @@ ( "2" :> 50 ) @@ ( "6" :> 54 ) @@
    ( "M" :> 77 ) @@ ( "r" :> 114 )

\* a comes before b in the order of strings
AntesTexto(a, b) ==
    \E k \in 1..(Len(a) + 1) :
        /\ k <= Len(b)
        /\ SubSeq(a, 1, k - 1) = SubSeq(b, 1, k - 1)
        /\ k = Len(a) + 1 \/ PuntoUnicode[a[k]] < PuntoUnicode[b[k]]

\* (model, ensemble) of a comes before that of b
AntesPar(a, b) ==
    \/ AntesTexto(a.modelo, b.modelo)
    \/ a.modelo = b.modelo /\ AntesTexto(a.ensamble, b.ensamble)

ParesObservados == {<<registros[i].modelo, registros[i].ensamble>> : i \in 1..Len(registros)}

C25_UnaFilaPorParEnOrden ==
    Devuelto =>
        /\ Len(filas) = Cardinality(ParesObservados)
        /\ {<<filas[i].modelo, filas[i].ensamble>> : i \in 1..Len(filas)} = ParesObservados
        /\ \A i, j \in 1..Len(filas) : i < j => AntesPar(filas[i], filas[j])

\* three registros, a pair twice among them and the pairs out of order,
\* gave two rows
C25_Testigo ==
    /\ Devuelto
    /\ Len(registros) = 3
    /\ Len(filas) = 2
    /\ AntesPar(registros[2], registros[1])
    /\ registros[3].modelo = registros[1].modelo
    /\ registros[3].ensamble = registros[1].ensamble

----------------------------------------------------------------------------
(* C26: the retry driver asks the collaborator at most once per task and    *)
(* has at most one request in flight: a task is handed to descargar_tarea   *)
(* only when every earlier task has its row, that is after the earlier      *)
(* fetch and its relocation pass have returned.  A task whose destination   *)
(* directory holds a .nc file when its turn comes, be it a file a           *)
(* relocation pass of the same run has put there, is asked of nobody and    *)
(* gets the row ya_existe.                                                  *)

\* the driver is between descargar_tarea and the row of that task
EnVuelo == pcR = "reubicando"

C26_UnIntentoALaVez ==
    [][/\ llamadas' # llamadas =>
              /\ ~EnVuelo
              /\ pc # "pasada"
              /\ Len(llamadas') = Len(llamadas) + 1
              /\ SubSeq(llamadas', 1, Len(llamadas)) = llamadas
              /\ llamadas'[Len(llamadas')].tarea = Len(resultados) + 1
              /\ \A i \in 1..Len(llamadas) : llamadas[i].tarea <= Len(resultados)
       /\ EnVuelo => llamadas' = llamadas
       /\ (pcR = "bucle" /\ Len(resultados) < Len(tareas)
              /\ TieneNcDirecto(TareaEnTurno)) =>
              /\ llamadas' = llamadas
              /\ cache' = cache
              /\ resultados' = Append(resultados, resultados'[Len(resultados')])
              /\ resultados'[Len(resultados')].estado = "ya_existe"
              /\ resultados'[Len(resultados')].anio = TareaEnTurno.anio]_vars

\* the fetch of the first task was the only one: the pass after it put a
\* file into the directory of the second task, which was then not fetched
C26_Testigo ==
    /\ pcR = "fin"
    /\ Len(resultados) = 2
    /\ Len(llamadas) = 1
    /\ llamadas[1].tarea = 1
    /\ resultados[1].estado # "ya_existe"
    /\ resultados[1].detalle.movidos >= 1
    /\ resultados[2].estado = "ya_existe"
    /\ \A ruta \in DOMAIN salida0 : SubSeq(ruta, 1, 3) # <<CM6, Cr1, <<"s", "1", "9", "6", "1">> >>

----------------------------------------------------------------------------
(* C27: the existence check and the move of a relocation pass are two       *)
(* steps.  With two passes at once into the same destination tree, each     *)
(* holding a file that maps to the same destination path, both can find the *)
(* destination free and the later move then replaces the file the earlier   *)
(* move put there.  A file is replaced only in that way: never a file that  *)
(* was in the tree before the passes, and never while one pass runs alone.  *)

\* the step replaces the content at a path of the destination tree
Reemplaza ==
    \E d \in DOMAIN salida : d \in DOMAIN salida' /\ salida'[d] # salida[d]

\* the other pass has moved a file to the destination this pass found free
Adelantado(p) ==
    /\ enMano[p] # Ninguno
    /\ enMano[p][1].destino \in DOMAIN salida
    /\ \E q \in Pasadas \ {p} : salida[enMano[p][1].destino] \div 10 = q

C27_Estado ==
    /\ \A d \in DOMAIN salida0 : d \in DOMAIN salida /\ salida[d] = salida0[d]
    /\ \A d \in reemplazados : d \notin DOMAIN salida0
    /\ reemplazados # {} => solapadas

C27_SoloCarreraSobrescribe ==
    /\ []C27_Estado
    /\ [][Reemplaza => \E p \in Pasadas : Adelantado(p) /\ enMano'[p] = Ninguno]_vars

\* both passes found M6/r1/s1960/<name> free; the file of the first one to
\* move is gone from its cache and from the destination tree, where the
\* file of the other one lies
C27_Testigo ==
    /\ reemplazados # {}
    /\ \A p \in Pasadas : pcP[p] = "fin" /\ cuentaP[p].movidos >= 1
    /\ \E p \in Pasadas :
           /\ <<Dv1, Ds1960r1, N60>> \notin DOMAIN cacheP[1]
           /\ <<Dv2, Ds1960r1, N60>> \notin DOMAIN cacheP[2]
           /\ \A d \in DOMAIN salida : salida[d] \div 10 # p

----------------------------------------------------------------------------
(* C28: the counters of a relocation pass account for every file handled    *)
(* exactly once: movidos + omitidos + errores is the number of files        *)
(* handled so far and, when the pass returns, the number of files it        *)
(* discovered (omitidos is 0 in reorganizar_datos and _mover_archivos,      *)
(* which count a skip in errores); and movidos is the number of files that  *)
(* left the cache for the destination tree.                                 *)

\* the discovered files that are no longer where the pass found them
Salieron == {archivo \in Descubiertos : archivo \notin DOMAIN cache}

\* the paths of the destination tree that the pass has filled
Llegaron == {d \in DOMAIN salida : d \notin DOMAIN salida0}

C28_ConservacionDeContadores ==
    pc \in {"pasada", "completa", "interrumpida"} =>
        /\ movidos + omitidos + errores = Cardinality(Manejados)
        /\ pc = "completa" => movidos + omitidos + errores = Cardinality(Descubiertos)
        /\ variante # "mover_nc_cache_a_salida" => omitidos = 0
        /\ movidos = Cardinality(Salieron)
        /\ movidos = Cardinality(Llegaron)

\* a pass of mover_nc_cache_a_salida over three files has returned with one
\* moved, one skipped and one error
C28_Testigo ==
    /\ pc = "completa"
    /\ Cardinality(Descubiertos) = 3
    /\ movidos = 1
    /\ omitidos = 1
    /\ errores = 1

----------------------------------------------------------------------------
(* C29: under relocation and retry the destination tree only grows.  Every  *)
(* step of a run of DescargadorDatosESGF.ejecutar, with its pass of          *)
(* _mover_archivos, and of the retry driver, with its pass of               *)
(* mover_nc_cache_a_salida after each fetch, leaves every file of the       *)
(* destination tree at its path with its content; what a step adds is a     *)
(* file taken from the cache, at a path that held none, and directories.    *)

Nuevos == DOMAIN salida' \ DOMAIN salida

C29_SalidaSoloCrece ==
    [][/\ \A d \in DOMAIN salida : d \in DOMAIN salida' /\ salida'[d] = salida[d]
       /\ dirs \subseteq dirs'
       /\ \A d \in Nuevos :
              \E archivo \in DOMAIN cache :
                  /\ cache[archivo] = salida'[d]
                  /\ archivo \notin DOMAIN cache'
                  /\ Carpeta(d) \in dirs']_vars

\* the retry driver found a .nc file in s1960, and ended with that file as
\* it was and with a file more in the tree, moved there by the pass after a
\* fetch
C29_Testigo ==
    /\ pcR = "fin"
    /\ (DirS1960 \o <<N60>>) \in DOMAIN salida
    /\ salida[DirS1960 \o <<N60>>] = Previos[DirS1960 \o <<N60>>]
    /\ Cardinality(DOMAIN salida) >= 2
    /\ \E i \in 1..Len(resultados) :
           resultados[i].estado # "ya_existe" /\ resultados[i].detalle.movidos >= 1

====
